---- MODULE Spec2Model ----
(***************************************************************************)
(* Support Context Protocol (scp): the case store (scp/memory.py), the two *)
(* search engines (scp/search.py) and the manager that combines them       *)
(* (scp/core.py), with the pydantic models of scp/models.py.               *)
(*                                                                         *)
(* Python strings are sequences of one-character strings, so that lower(), *)
(* split(), join() and the substring test are computed, not assumed.       *)
(* Python dicts are sequences of entries in insertion order (a dict keeps  *)
(* the position of a key that is overwritten).                             *)
(***************************************************************************)
EXTENDS Integers, Sequences, FiniteSets, TLC

VARIABLES
    memory_cases,           \* MemoryStore._cases: the dict, as entries in insertion order
    vector_search_enabled,  \* SCPManager.vector_search_enabled
    case_ids,               \* VectorSearchEngine.case_ids
    index,                  \* VectorSearchEngine.index: the vectors of the FAISS table
    engine_cases,           \* SimpleSearchEngine.cases: the dict, in insertion order
    now,                    \* datetime.utcnow(), a logical clock
    ret,                    \* what the last call returned (or that it raised)
    upserted,               \* history: case_id -> the record last handed to MemoryStore.add_case
    model_name,             \* VectorSearchEngine.model_name
    index_file,             \* vector_index.faiss and vector_metadata.json of the data directory
    updating,               \* the thread inside SCPManager.update_case, and where it is
    searching,              \* the thread inside MemoryStore.search_cases, and where it is
    adding,                 \* the thread inside SCPManager.add_case, and where it is
    syncing                 \* the thread inside SCPManager.import_data, and where it is

vars == <<memory_cases, vector_search_enabled, case_ids, index, engine_cases, now, ret, upserted,
          model_name, index_file, updating, searching, adding, syncing>>

\* what one manager that runs one call at a time and never saves leaves alone
offstage == <<model_name, index_file, updating, searching, adding, syncing>>

----------------------------------------------------------------------------
(* Bounds of the model *)

\* the clock stops here: at most MaxClock mutating calls in a behaviour
MaxClock == 2

----------------------------------------------------------------------------
(* Python values *)

\* None in a string-valued field
None == <<"None">>
\* None in an enum-valued field
NoneVal == "None"
\* Optional[List[...]] and Optional[datetime] arguments: None, or a value
Absent == [has |-> FALSE]
Some(v) == [has |-> TRUE, v |-> v]
\* `if x:` for an Optional[List]
TruthyList(o) == o.has /\ o.v # <<>>

Truthy(s) == s # None /\ s # <<>>

\* A float is a rational num/den with den > 0
ScoreLeq(a, b) == a.num * b.den <= b.num * a.den
ScoreLt(a, b) == a.num * b.den < b.num * a.den
One == [num |-> 1, den |-> 1]
Zero == [num |-> 0, den |-> 1]

RECURSIVE SeqFilterTruthy(_)
\* list(filter(None, parts))
SeqFilterTruthy(parts) ==
    IF parts = <<>> THEN <<>>
    ELSE IF Truthy(Head(parts)) THEN <<Head(parts)>> \o SeqFilterTruthy(Tail(parts))
    ELSE SeqFilterTruthy(Tail(parts))

RECURSIVE Join(_)
\* " ".join(parts)
Join(parts) ==
    IF parts = <<>> THEN <<>>
    ELSE IF Len(parts) = 1 THEN Head(parts)
    ELSE Head(parts) \o <<" ">> \o Join(Tail(parts))

LowerChar(c) == CASE c = "A" -> "a" [] c = "B" -> "b" [] c = "C" -> "c" [] OTHER -> c

\* str.lower()
Lower(s) == [i \in 1..Len(s) |-> LowerChar(s[i])]

RECURSIVE SplitFrom(_, _)
\* str.split(): cur is the token being read; runs of whitespace separate tokens
SplitFrom(s, cur) ==
    IF s = <<>> THEN (IF cur = <<>> THEN <<>> ELSE <<cur>>)
    ELSE IF Head(s) = " "
         THEN (IF cur = <<>> THEN <<>> ELSE <<cur>>) \o SplitFrom(Tail(s), <<>>)
         ELSE SplitFrom(Tail(s), Append(cur, Head(s)))

Split(s) == SplitFrom(s, <<>>)

\* set(text.split())
WordSet(s) == LET words == Split(s) IN {words[i] : i \in 1..Len(words)}

\* needle in hay
Contains(hay, needle) ==
    \E i \in 0..(Len(hay) - Len(needle)) : SubSeq(hay, i + 1, i + Len(needle)) = needle

\* str.strip() leaves nothing
IsBlank(s) == \A i \in 1..Len(s) : s[i] = " "

Range(s) == {s[i] : i \in 1..Len(s)}

RECURSIVE SelectIdx(_, _, _)
\* the positions i >= from of s with Keep(s[i]), in order
SelectIdx(s, Keep(_), from) ==
    IF from > Len(s) THEN <<>>
    ELSE IF Keep(s[from]) THEN <<from>> \o SelectIdx(s, Keep, from + 1)
    ELSE SelectIdx(s, Keep, from + 1)

\* [x for x in s if Keep(x)]
Filter(s, Keep(_)) == LET ix == SelectIdx(s, Keep, 1) IN [i \in 1..Len(ix) |-> s[ix[i]]]

\* s[:n]: a negative n counts from the end
Prefix(s, n) ==
    IF n >= 0 THEN SubSeq(s, 1, IF n < Len(s) THEN n ELSE Len(s))
    ELSE SubSeq(s, 1, IF Len(s) + n > 0 THEN Len(s) + n ELSE 0)

RECURSIVE InsertDesc(_, _, _)
\* x put into the descending list s after every element whose key is greater
InsertDesc(x, Key(_), s) ==
    IF s = <<>> THEN <<x>>
    ELSE IF ScoreLt(Key(x), Key(Head(s))) THEN <<Head(s)>> \o InsertDesc(x, Key, Tail(s))
    ELSE <<x>> \o s

RECURSIVE SortDesc(_, _)
\* s.sort(key=Key, reverse=True): stable, equal keys keep their order
SortDesc(Key(_), s) ==
    IF s = <<>> THEN <<>> ELSE InsertDesc(Head(s), Key, SortDesc(Key, Tail(s)))

----------------------------------------------------------------------------
(* scp/models.py *)

\* class Status / class Priority: the members, by name
Status == {"OPEN", "IN_PROGRESS", "PENDING_CUSTOMER", "PENDING_MICROSOFT", "RESOLVED", "CLOSED"}
Priority == {"CRITICAL", "HIGH", "MEDIUM", "LOW"}

\* the members' values, which is what JSON carries
StatusValue(m) ==
    CASE m = "OPEN" -> "open" [] m = "IN_PROGRESS" -> "in_progress"
      [] m = "PENDING_CUSTOMER" -> "pending_customer"
      [] m = "PENDING_MICROSOFT" -> "pending_microsoft"
      [] m = "RESOLVED" -> "resolved" [] m = "CLOSED" -> "closed"
PriorityValue(m) ==
    CASE m = "CRITICAL" -> "critical" [] m = "HIGH" -> "high"
      [] m = "MEDIUM" -> "medium" [] m = "LOW" -> "low"

\* CaseTag(name, confidence, source); confidence is 0 or 1 here
CaseTag(name, source) == [name |-> name, confidence |-> 1, source |-> source]

\* SupportCase(**kw): the fields the store, the filters and the text content read.
\* error_messages, reproduction_steps and notes behave as symptoms does, and
\* root_cause and workaround as solution does; they are left out.
\* created_at defaults to utcnow(); the validator of updated_at always sets utcnow().
SupportCase(kw, t) ==
    [case_id     |-> kw.case_id,
     title       |-> kw.title,
     status      |-> kw.status,
     priority    |-> kw.priority,
     created_at  |-> t,
     updated_at  |-> t,
     description |-> kw.description,
     symptoms    |-> kw.symptoms,
     solution    |-> None,
     logs        |-> <<>>,
     tags        |-> kw.tags]

\* SupportCase.get_text_content
get_text_content(c) ==
    LET content_parts ==
            <<c.title, c.description, Join(c.symptoms)>>
            \o (IF Truthy(c.solution) THEN <<c.solution>> ELSE <<>>)
            \o c.logs
            \o [i \in 1..Len(c.tags) |-> c.tags[i].name]
    IN Join(SeqFilterTruthy(content_parts))

\* CaseQuery.limit: Field(default=10, ge=1, le=100)
DefaultLimit == 10
MinLimit == 1
MaxLimit == 100

\* SupportCase.add_tag(name, source=source): the tags of that name are removed and
\* the new tag goes last
add_tag(c, name, source) ==
    [c EXCEPT !.tags = Append(Filter(c.tags, LAMBDA tag : tag.name # name),
                              CaseTag(name, source))]

\* CaseQuery(**kw): the validated query, or the ValidationError
CaseQuery(kw) ==
    IF kw.limit < MinLimit \/ kw.limit > MaxLimit
    THEN [error |-> "ValidationError"]
    ELSE [error |-> "", query |-> kw.query, limit |-> kw.limit, case_ids |-> kw.case_ids,
          status_filter |-> kw.status_filter, priority_filter |-> kw.priority_filter,
          date_from |-> kw.date_from, date_to |-> kw.date_to, tags |-> kw.tags]

\* SearchResult.similarity_score: Field(..., ge=0.0, le=1.0)
ScoreValid(s) == ScoreLeq(Zero, s) /\ ScoreLeq(s, One)

\* SearchResult(case, similarity_score, matched_fields=[])
SearchResult(c, s) == [case |-> c, similarity_score |-> s]

----------------------------------------------------------------------------
(* scp/memory.py: MemoryStore, as operators on the dict d *)

\* the position of key k in dict d, 0 when absent
DictPos(d, k) == IF \E i \in 1..Len(d) : d[i].case_id = k
                 THEN CHOOSE i \in 1..Len(d) : d[i].case_id = k
                 ELSE 0

\* a faulty d[k] = v that adds an entry even when the key exists
DictSet_append(d, k, v) == Append(d, v)

\* d[k] = v: an existing key keeps its position, a new key goes last
DictSet(d, k, v) == IF DictPos(d, k) = 0 THEN Append(d, v)
                    ELSE [d EXCEPT ![DictPos(d, k)] = v]

\* del d[k]
DictDel(d, k) == Filter(d, LAMBDA e : e.case_id # k)

DictKeys(d) == {d[i].case_id : i \in 1..Len(d)}

\* MemoryStore.add_case: stamps updated_at, then self._cases[case.case_id] = case
add_case(d, c, t) == DictSet(d, c.case_id, [c EXCEPT !.updated_at = t])

\* MemoryStore.get_case: self._cases.get(case_id), <<>> standing for None
get_case(d, k) == IF DictPos(d, k) = 0 THEN <<>> ELSE <<d[DictPos(d, k)]>>

\* MemoryStore.get_all_cases
get_all_cases(d) == d

\* MemoryStore.get_case_count
get_case_count(d) == Len(d)

\* a faulty delete_case that reports the removal and leaves the case in place
delete_case_keep(d, k) == [cases |-> d, deleted |-> k \in DictKeys(d)]

\* MemoryStore.delete_case: the dict afterwards, and the bool returned
delete_case(d, k) == IF k \in DictKeys(d)
                     THEN [cases |-> DictDel(d, k), deleted |-> TRUE]
                     ELSE [cases |-> d, deleted |-> FALSE]

\* a faulty search_cases that does not apply the priority filter
search_cases_no_priority(d, query, status_filter, priority_filter, ids) ==
    LET c1 == IF TruthyList(ids)
              THEN Filter(d, LAMBDA c : c.case_id \in Range(ids.v)) ELSE d
        c2 == IF TruthyList(status_filter)
              THEN Filter(c1, LAMBDA c : c.status \in Range(status_filter.v)) ELSE c1
    IN IF query # <<>>
       THEN Filter(c2, LAMBDA c : Contains(Lower(get_text_content(c)), Lower(query)))
       ELSE c2

\* a faulty search_cases whose text match is case-sensitive
search_cases_case_sensitive(d, query, status_filter, priority_filter, ids) ==
    LET c1 == IF TruthyList(ids)
              THEN Filter(d, LAMBDA c : c.case_id \in Range(ids.v)) ELSE d
        c2 == IF TruthyList(status_filter)
              THEN Filter(c1, LAMBDA c : c.status \in Range(status_filter.v)) ELSE c1
        c3 == IF TruthyList(priority_filter)
              THEN Filter(c2, LAMBDA c : c.priority \in Range(priority_filter.v)) ELSE c2
    IN IF query # <<>>
       THEN Filter(c3, LAMBDA c : Contains(get_text_content(c), query))
       ELSE c3

\* MemoryStore.search_cases(query, status_filter, priority_filter, case_ids)
search_cases(d, query, status_filter, priority_filter, ids) ==
    LET c0 == d
        c1 == IF TruthyList(ids)
              THEN Filter(c0, LAMBDA c : c.case_id \in Range(ids.v)) ELSE c0
        c2 == IF TruthyList(status_filter)
              THEN Filter(c1, LAMBDA c : c.status \in Range(status_filter.v)) ELSE c1
        c3 == IF TruthyList(priority_filter)
              THEN Filter(c2, LAMBDA c : c.priority \in Range(priority_filter.v)) ELSE c2
    IN IF query # <<>>
       THEN Filter(c3, LAMBDA c : Contains(Lower(get_text_content(c)), Lower(query)))
       ELSE c3

----------------------------------------------------------------------------
(* JSON: what json.dumps(..., default=str) writes and json.loads reads back *)

JNull == [j |-> "null"]
JString(s) == [j |-> "string", s |-> s]
\* str(datetime): a string that parses as a datetime
JDatetime(t) == [j |-> "string", datetime |-> t]
JArray(a) == [j |-> "array", a |-> a]
JObject(o) == [j |-> "object", o |-> o]

\* an Optional[str] field
DumpStr(s) == IF s = None THEN JNull ELSE JString(s)
\* a str-Enum member is written as its value
DumpStatus(m) == IF m = NoneVal THEN JNull ELSE JString(StatusValue(m))
DumpPriority(m) == IF m = NoneVal THEN JNull ELSE JString(PriorityValue(m))

\* SupportCase.dict(), dumped
DumpCase(c) ==
    JObject([case_id     |-> JString(c.case_id),
             title       |-> DumpStr(c.title),
             status      |-> DumpStatus(c.status),
             priority    |-> DumpPriority(c.priority),
             created_at  |-> JDatetime(c.created_at),
             updated_at  |-> JDatetime(c.updated_at),
             description |-> DumpStr(c.description),
             symptoms    |-> JArray([i \in 1..Len(c.symptoms) |-> JString(c.symptoms[i])]),
             solution    |-> DumpStr(c.solution),
             logs        |-> JArray([i \in 1..Len(c.logs) |->
                                        JObject([content |-> JString(c.logs[i])])]),
             tags        |-> JArray([i \in 1..Len(c.tags) |->
                                        JObject([name       |-> JString(c.tags[i].name),
                                                 confidence |-> c.tags[i].confidence,
                                                 source     |-> JString(c.tags[i].source)])])])

\* MemoryStore.export_to_json: the parsed form of the string it returns
export_to_json(d) ==
    [total_cases |-> Len(d), cases |-> [i \in 1..Len(d) |-> DumpCase(d[i])]]

IsStr(v) == v.j = "string" /\ "s" \in DOMAIN v
IsDatetime(v) == v.j = "string" /\ "datetime" \in DOMAIN v
IsStrArray(v) == v.j = "array" /\ \A i \in 1..Len(v.a) : IsStr(v.a[i])
IsTag(v) == /\ v.j = "object"
            /\ {"name", "confidence", "source"} \subseteq DOMAIN v.o
            /\ IsStr(v.o.name) /\ IsStr(v.o.source)
            /\ v.o.confidence \in 0..1
IsLog(v) == v.j = "object" /\ "content" \in DOMAIN v.o /\ IsStr(v.o.content)
IsStatus(v) == v.j = "string" /\ \E m \in Status : StatusValue(m) = v.s
IsPriority(v) == v.j = "string" /\ \E m \in Priority : PriorityValue(m) = v.s

\* pydantic's validation of SupportCase(**o) for a mapping o: required fields are
\* there, and every field that is there has a value of its type
FieldsValid(o) ==
    /\ "case_id" \in DOMAIN o /\ IsStr(o.case_id)
    /\ "title" \in DOMAIN o /\ IsStr(o.title)
    /\ "status" \in DOMAIN o => IsStatus(o.status)
    /\ "priority" \in DOMAIN o => IsPriority(o.priority)
    /\ "created_at" \in DOMAIN o => IsDatetime(o.created_at)
    /\ "description" \in DOMAIN o => IsStr(o.description)
    /\ "symptoms" \in DOMAIN o => IsStrArray(o.symptoms)
    /\ "solution" \in DOMAIN o => (o.solution.j = "null" \/ IsStr(o.solution))
    /\ "logs" \in DOMAIN o =>
           (o.logs.j = "array" /\ \A i \in 1..Len(o.logs.a) : IsLog(o.logs.a[i]))
    /\ "tags" \in DOMAIN o =>
           (o.tags.j = "array" /\ \A i \in 1..Len(o.tags.a) : IsTag(o.tags.a[i]))

\* the SupportCase that SupportCase(**o) builds from a valid mapping o at time t
ParseCase(o, t) ==
    [case_id     |-> o.case_id.s,
     title       |-> o.title.s,
     status      |-> IF "status" \in DOMAIN o
                     THEN CHOOSE m \in Status : StatusValue(m) = o.status.s ELSE "OPEN",
     priority    |-> IF "priority" \in DOMAIN o
                     THEN CHOOSE m \in Priority : PriorityValue(m) = o.priority.s
                     ELSE "MEDIUM",
     created_at  |-> IF "created_at" \in DOMAIN o THEN o.created_at.datetime ELSE t,
     updated_at  |-> t,
     description |-> IF "description" \in DOMAIN o THEN o.description.s ELSE <<>>,
     symptoms    |-> IF "symptoms" \in DOMAIN o
                     THEN [i \in 1..Len(o.symptoms.a) |-> o.symptoms.a[i].s] ELSE <<>>,
     solution    |-> IF "solution" \in DOMAIN o /\ o.solution.j = "string"
                     THEN o.solution.s ELSE None,
     logs        |-> IF "logs" \in DOMAIN o
                     THEN [i \in 1..Len(o.logs.a) |-> o.logs.a[i].o.content.s] ELSE <<>>,
     tags        |-> IF "tags" \in DOMAIN o
                     THEN [i \in 1..Len(o.tags.a) |->
                              [name       |-> o.tags.a[i].o.name.s,
                               confidence |-> o.tags.a[i].o.confidence,
                               source     |-> o.tags.a[i].o.source.s]]
                     ELSE <<>>]

RECURSIVE ImportLoop(_, _, _, _, _)
\* the loop of MemoryStore.import_from_json over cases_data. SupportCase(**case_data)
\* raises for a record that is no mapping (TypeError) or does not validate
\* (ValidationError); the handler then evaluates case_data.get(...), which raises
\* AttributeError out of the loop when the record is no mapping.
ImportLoop(d, cases_data, t, imported_count, added) ==
    IF cases_data = <<>>
    THEN [cases |-> d, raised |-> FALSE, count |-> imported_count, added |-> added]
    ELSE LET case_data == Head(cases_data) IN
         IF case_data.j = "object" /\ FieldsValid(case_data.o)
         THEN LET c == ParseCase(case_data.o, t) IN
              ImportLoop(add_case(d, c, t), Tail(cases_data), t, imported_count + 1,
                         Append(added, [c EXCEPT !.updated_at = t]))
         ELSE IF case_data.j = "object"
         THEN ImportLoop(d, Tail(cases_data), t, imported_count, added)
         ELSE [cases |-> d, raised |-> TRUE, count |-> imported_count, added |-> added]

\* MemoryStore.import_from_json(json_data) on dict d at time t
import_from_json(d, data, t) == ImportLoop(d, data.cases, t, 0, <<>>)

----------------------------------------------------------------------------
(* scp/search.py: SimpleSearchEngine, as operators on its dict e *)

\* the Jaccard similarity computed in SimpleSearchEngine.search
Jaccard(query_words, case_words) ==
    [num |-> Cardinality(query_words \cap case_words),
     den |-> Cardinality(query_words \cup case_words)]

\* a faulty SimpleSearchEngine.search that truncates without sorting
simple_search_unsorted(e, query, k, threshold) ==
    LET query_words == WordSet(Lower(query))
        scored == [i \in 1..Len(e) |->
                     [case_id |-> e[i].case_id,
                      score   |-> Jaccard(query_words,
                                          WordSet(Lower(get_text_content(e[i]))))]]
    IN IF query_words = {} THEN <<>>
       ELSE Prefix(Filter(scored, LAMBDA r : r.score.den > 0 /\ ScoreLeq(threshold, r.score)), k)

\* SimpleSearchEngine.search(query, k, threshold): a list of [case_id, score]
simple_search(e, query, k, threshold) ==
    LET query_words == WordSet(Lower(query))
        scored == [i \in 1..Len(e) |->
                     [case_id |-> e[i].case_id,
                      score   |-> Jaccard(query_words,
                                          WordSet(Lower(get_text_content(e[i]))))]]
        results == Filter(scored, LAMBDA r : r.score.den > 0 /\ ScoreLeq(threshold, r.score))
    IN IF query_words = {} THEN <<>>
       ELSE Prefix(SortDesc(LAMBDA r : r.score, results), k)

\* SimpleSearchEngine.find_similar_cases(case, k, threshold)
simple_find_similar_cases(e, c, k, threshold) ==
    Filter(simple_search(e, get_text_content(c), k + 1, threshold),
           LAMBDA r : r.case_id # c.case_id)

\* SimpleSearchEngine.add_case / update_case
simple_add_case(e, c) == DictSet(e, c.case_id, c)

\* SimpleSearchEngine.remove_case
simple_remove_case(e, k) == DictDel(e, k)

RECURSIVE simple_rebuild_index(_)
\* SimpleSearchEngine.rebuild_index: {case.case_id: case for case in cases}
simple_rebuild_index(cs) ==
    IF cs = <<>> THEN <<>>
    ELSE simple_add_case(simple_rebuild_index(SubSeq(cs, 1, Len(cs) - 1)), cs[Len(cs)])

----------------------------------------------------------------------------
(* scp/search.py: VectorSearchEngine, as operators on case_ids (ids) and the
   vectors of the FAISS table (ix) *)

\* The sentence encoder is an external model. This stand-in is deterministic and
\* maps a text to the sum of fixed vectors of its words, chosen so that inner
\* products fall below 0.0, inside [0.0, 1.0] and above 1.0 (the engine does not
\* normalise what the encoder of the configured model name returns).
WordVec(w) ==
    CASE w = <<"a", "b">> -> <<1, 1>>
      [] w = <<"c">>      -> <<1, -1>>
      [] w = <<"b">>      -> <<0, 1>>
      [] w = <<"c", "a">> -> <<-1, 0>>
      [] OTHER            -> <<1, 0>>

RECURSIVE SumVec(_)
SumVec(ws) == IF ws = <<>> THEN <<0, 0>>
              ELSE LET v == WordVec(Head(ws))  r == SumVec(Tail(ws))
                   IN <<v[1] + r[1], v[2] + r[2]>>

\* VectorSearchEngine._encode_text: blank text is replaced by "empty case"
encode_text(text) ==
    LET t == IF IsBlank(text)
             THEN <<"e", "m", "p", "t", "y", " ", "c", "a", "s", "e">> ELSE text
    IN SumVec(Split(Lower(t)))

\* the inner product IndexFlatIP ranks by, as a float
InnerProduct(u, v) == [num |-> u[1] * v[1] + u[2] * v[2], den |-> 4]

\* VectorSearchEngine.add_case
vector_add_case(ids, ix, c) ==
    [case_ids |-> Append(ids, c.case_id),
     index    |-> Append(ix, encode_text(get_text_content(c)))]

\* VectorSearchEngine.remove_case: marks nothing, returns whether the id is listed
vector_remove_case(ids, ix, k) == [case_ids |-> ids, index |-> ix, found |-> k \in Range(ids)]

\* VectorSearchEngine.update_case: remove_case (which removes nothing), then add_case
vector_update_case(ids, ix, c) ==
    LET r == IF c.case_id \in Range(ids) THEN vector_remove_case(ids, ix, c.case_id)
             ELSE [case_ids |-> ids, index |-> ix]
    IN vector_add_case(r.case_ids, r.index, c)

RECURSIVE vector_rebuild_from(_, _, _)
vector_rebuild_from(ids, ix, cs) ==
    IF cs = <<>> THEN [case_ids |-> ids, index |-> ix]
    ELSE LET r == vector_add_case(ids, ix, Head(cs))
         IN vector_rebuild_from(r.case_ids, r.index, Tail(cs))

\* VectorSearchEngine.rebuild_index: a fresh table and id list, then add_case of each
vector_rebuild_index(cs) == vector_rebuild_from(<<>>, <<>>, cs)

RECURSIVE Rankings(_, _, _)
\* IndexFlatIP.search: the orders in which the rows in S can come out, best inner
\* product first; FAISS does not say which of two equal scores comes first.
Rankings(S, ix, q) ==
    IF S = {} THEN {<<>>}
    ELSE LET best == {i \in S : \A j \in S : ScoreLeq(InnerProduct(q, ix[j]),
                                                        InnerProduct(q, ix[i]))}
         IN UNION {{<<i>> \o r : r \in Rankings(S \ {i}, ix, q)} : i \in best}

\* the sentence-transformer models an engine is opened with; both give vectors of
\* the same dimension
DefaultModel == "all-MiniLM-L6-v2"
OtherModel == "all-MiniLM-L12-v2"
Models == {DefaultModel, OtherModel}

\* self.encoder.encode(...) of the engine opened with model: another model gives
\* another vector for the same text
encode_with(model, text) ==
    IF model = DefaultModel THEN encode_text(text)
    ELSE <<encode_text(text)[2], encode_text(text)[1]>>

\* the body of VectorSearchEngine.search for the encoded query q: the result lists
\* it can return, each a list of [case_id, score]. FAISS returns min(k, len(case_ids))
\* rows, padded with -1 past the end of the table; rows outside case_ids are dropped.
search_rows(ids, ix, q, k, threshold) ==
    IF Len(ix) = 0 THEN {<<>>}
    ELSE LET kk == IF k < Len(ids) THEN k ELSE Len(ids)
         IN { LET top == Prefix(rk, kk)
                  rows == Filter(top, LAMBDA i : i <= Len(ids)
                                                 /\ ScoreLeq(threshold, InnerProduct(q, ix[i])))
              IN [n \in 1..Len(rows) |->
                    [case_id |-> ids[rows[n]], score |-> InnerProduct(q, ix[rows[n]])]]
              : rk \in Rankings(1..Len(ix), ix, q) }

\* VectorSearchEngine.search(query, k, threshold) of the engine of the manager
vector_search(ids, ix, query, k, threshold) ==
    search_rows(ids, ix, encode_text(query), k, threshold)

\* VectorSearchEngine.find_similar_cases(case, k, threshold)
vector_find_similar_cases(ids, ix, c, k, threshold) ==
    vector_search(ids, ix, get_text_content(c), k + 1, threshold)

\* the data directory without vector_index.faiss and vector_metadata.json
NoFiles == [faiss |-> <<>>, metadata |-> <<>>]

\* VectorSearchEngine.save_index: faiss.write_index of the table, then the metadata
save_index(ids, ix, model) ==
    [faiss |-> <<ix>>, metadata |-> <<[case_ids |-> ids, model_name |-> model]>>]

\* VectorSearchEngine._load_index of an engine opened with model: the table is read
\* when vector_index.faiss exists, the ids when vector_metadata.json exists, each
\* on its own; a different recorded model name prints a warning
load_index(files, model) ==
    [index    |-> IF files.faiss = <<>> THEN <<>> ELSE files.faiss[1],
     case_ids |-> IF files.metadata = <<>> THEN <<>> ELSE files.metadata[1].case_ids]

----------------------------------------------------------------------------
(* scp/parsers.py: LogParser *)

RECURSIVE LStrip(_)
LStrip(s) == IF s # <<>> /\ Head(s) = " " THEN LStrip(Tail(s)) ELSE s

RECURSIVE RStrip(_)
RStrip(s) == IF s # <<>> /\ s[Len(s)] = " " THEN RStrip(SubSeq(s, 1, Len(s) - 1)) ELSE s

\* str.strip()
Strip(s) == RStrip(LStrip(s))

RECURSIVE parse_log_content(_)
\* LogParser.parse_log_content over the lines of the content (content.split of the
\* line break): a line is stripped, an empty one skipped, and the content of the
\* LogEntry is the stripped line
parse_log_content(lines) ==
    IF lines = <<>> THEN <<>>
    ELSE LET line == Strip(Head(lines)) IN
         (IF line = <<>> THEN <<>> ELSE <<line>>) \o parse_log_content(Tail(lines))

----------------------------------------------------------------------------
(* scp/core.py: SCPManager, as operators on the store d and the engine *)

\* the fields update_case appends to instead of replacing
ListFields == {"symptoms"}

\* a faulty update loop that replaces a list field by the supplied list
apply_updates_replace(c, update_dict) ==
    [f \in DOMAIN c |->
        IF f \notin DOMAIN update_dict THEN c[f]
        ELSE IF f \in ListFields
             THEN (IF update_dict[f].has THEN update_dict[f].v ELSE c[f])
             ELSE update_dict[f]]

\* the loop of SCPManager.update_case over update_dict (every field of CaseUpdate
\* is an attribute of the case): a list is appended to a list field, any other
\* value of a list field is ignored, and any other field is set to the value
apply_updates(c, update_dict) ==
    [f \in DOMAIN c |->
        IF f \notin DOMAIN update_dict THEN c[f]
        ELSE IF f \in ListFields
             THEN (IF update_dict[f].has THEN c[f] \o update_dict[f].v ELSE c[f])
             ELSE update_dict[f]]

RECURSIVE add_tags(_, _, _)
\* for tag_name in tags: case.add_tag(tag_name, source=source)
add_tags(c, tags, source) ==
    IF tags = <<>> THEN c
    ELSE add_tags(add_tag(c, Head(tags), source), Tail(tags), source)

\* the date and tag filters of SCPManager.search_cases, after MemoryStore.search_cases
candidates(d, q) ==
    LET c1 == search_cases(d, q.query, q.status_filter, q.priority_filter, q.case_ids)
        c2 == IF q.date_from.has \/ q.date_to.has
              THEN Filter(c1, LAMBDA c :
                       /\ ~(q.date_from.has /\ c.created_at < q.date_from.v)
                       /\ ~(q.date_to.has /\ c.created_at > q.date_to.v))
              ELSE c1
    IN IF TruthyList(q.tags)
       THEN Filter(c2, LAMBDA c :
                Range(q.tags.v) \cap {c.tags[i].name : i \in 1..Len(c.tags)} # {})
       ELSE c2

\* score_map.get(case_id, 0.0) for score_map = {case_id: score for ... in vector_results}:
\* the last pair of an id is the one the dict keeps
score_map_get(vector_results, k) ==
    LET at == {i \in 1..Len(vector_results) : vector_results[i].case_id = k}
    IN IF at = {} THEN Zero
       ELSE vector_results[CHOOSE i \in at : \A j \in at : j <= i].score

\* a faulty list of SearchResult(...) whose scores are not validated
build_results_unvalidated(pairs) == [raised |-> FALSE, results |-> pairs]

\* a list of SearchResult(...) calls: pydantic raises ValidationError at the first
\* score outside [0.0, 1.0]
build_results(pairs) ==
    IF \E i \in 1..Len(pairs) : ~ScoreValid(pairs[i].similarity_score)
    THEN [raised |-> TRUE, results |-> <<>>]
    ELSE [raised |-> FALSE, results |-> pairs]

\* the k handed to the engine by SCPManager.search_cases
DefaultK == 100
search_k(cases) == IF Len(cases) > 0 THEN Len(cases) ELSE DefaultK

\* a faulty ranking that does not cut the list at the limit
rank_results_untruncated(cases, q, vector, vector_results) ==
    IF vector /\ q.query # <<>>
    THEN LET built == build_results([i \in 1..Len(cases) |->
                          SearchResult(cases[i],
                                       score_map_get(vector_results, cases[i].case_id))])
         IN IF built.raised THEN built
            ELSE [raised  |-> FALSE,
                  results |-> SortDesc(LAMBDA r : r.similarity_score, built.results)]
    ELSE [raised  |-> FALSE,
          results |-> [i \in 1..Len(cases) |-> SearchResult(cases[i], One)]]

\* the ranking and truncation of SCPManager.search_cases for the validated query q,
\* given what the vector engine returned (vector_results is read in vector mode only)
rank_results(cases, q, vector, vector_results) ==
    IF vector /\ q.query # <<>>
    THEN LET built == build_results([i \in 1..Len(cases) |->
                          SearchResult(cases[i],
                                       score_map_get(vector_results, cases[i].case_id))])
         IN IF built.raised THEN built
            ELSE [raised  |-> FALSE,
                  results |-> Prefix(SortDesc(LAMBDA r : r.similarity_score, built.results),
                                     q.limit)]
    ELSE [raised  |-> FALSE,
          results |-> Prefix([i \in 1..Len(cases) |-> SearchResult(cases[i], One)], q.limit)]

\* a faulty find_similar_cases loop that fails on an id the store does not hold
similar_to_results_stale_fails(d, similar_results, k) ==
    LET others == Filter(similar_results, LAMBDA r : r.case_id # k)
    IN IF \E i \in 1..Len(others) : get_case(d, others[i].case_id) = <<>>
       THEN [raised |-> TRUE, results |-> <<>>]
       ELSE build_results([i \in 1..Len(others) |->
                SearchResult(get_case(d, others[i].case_id)[1], others[i].score)])

\* a faulty find_similar_cases loop that does not skip the case itself
similar_to_results_with_self(d, similar_results, k) ==
    LET kept == Filter(similar_results, LAMBDA r : get_case(d, r.case_id) # <<>>)
    IN build_results([i \in 1..Len(kept) |->
                         SearchResult(get_case(d, kept[i].case_id)[1], kept[i].score)])

\* the loop of SCPManager.find_similar_cases over the engine's similar_results
similar_to_results(d, similar_results, k) ==
    LET kept == Filter(similar_results,
                       LAMBDA r : r.case_id # k /\ get_case(d, r.case_id) # <<>>)
    IN build_results([i \in 1..Len(kept) |->
                         SearchResult(get_case(d, kept[i].case_id)[1], kept[i].score)])

----------------------------------------------------------------------------
(* The inputs the calls are made with *)

Ids == {"A", "B", "C"}

Tag(n) == CaseTag(n, "import")

\* keyword arguments of SupportCase(...), as a caller or the parser builds them
CaseKw(k, title, st, pr, symptoms, tags) ==
    [case_id |-> k, title |-> title, status |-> st, priority |-> pr,
     description |-> <<>>, symptoms |-> symptoms, tags |-> tags]

SampleCases ==
    << CaseKw("A", <<"a", "b", " ", "c">>, "OPEN", "HIGH", <<>>, <<>>),
       CaseKw("B", <<"C", "a">>, "OPEN", "MEDIUM", <<>>, <<Tag(<<"t">>)>>),
       CaseKw("C", <<"a", "b", " ", "b">>, "RESOLVED", "HIGH", <<<<"c">>>>, <<>>),
       CaseKw("B", <<"b">>, "RESOLVED", "LOW", <<>>, <<Tag(<<"t">>), Tag(<<"u">>)>>) >>

\* CaseUpdate(...).dict(exclude_unset=True): the fields the caller set, None included
SampleUpdates ==
    << [status |-> "RESOLVED", solution |-> <<"a", "b">>],
       [symptoms |-> Some(<<<<"b">>>>)],
       [title |-> None] >>

\* keyword arguments of CaseQuery(...)
QueryKw(query, limit, ids, st, pr, tags) ==
    [query |-> query, limit |-> limit, case_ids |-> ids, status_filter |-> st,
     priority_filter |-> pr, date_from |-> Absent, date_to |-> Absent, tags |-> tags]

\* the queries the SearchCases action is called with
SampleQueries ==
    << QueryKw(<<"a", "b">>, DefaultLimit, Absent, Absent, Absent, Absent),
       QueryKw(<<"A">>, 1, Absent, Absent, Absent, Absent),
       QueryKw(<<>>, DefaultLimit, Absent, Some(<<"OPEN", "RESOLVED">>), Some(<<"HIGH">>), Absent),
       QueryKw(<<>>, DefaultLimit, Some(<<>>), Absent, Absent, Some(<<<<"t">>>>)),
       QueryKw(<<"b">>, MaxLimit + 1, Absent, Absent, Absent, Absent),
       [QueryKw(<<>>, MaxLimit, Absent, Absent, Absent, Absent)
            EXCEPT !.date_from = Some(1)] >>

\* thresholds: the default 0.1 of find_similar_cases, and one below every score
DefaultThreshold == [num |-> 1, den |-> 10]
LowThreshold == [num |-> -10, den |-> 1]

\* add_case_logs(case_id, log_content) is called with this text, given by its lines
SampleLog == << <<" ", "b">>, <<" ">>, <<"c">> >>

\* bulk_update_tags(tag_mappings) is called with these dicts, given by their items
SampleTagMappings ==
    << << [case_id |-> "A", tags |-> <<<<"t">>, <<"t">>>>] >>,
       << [case_id |-> "B", tags |-> <<<<"u">>>>], [case_id |-> "C", tags |-> <<<<"t">>>>] >> >>

\* find_similar_cases(case_id, limit, threshold) is called with these
SampleSimilar ==
    {[case_id |-> k, limit |-> 1, threshold |-> DefaultThreshold] : k \in Ids}
    \cup {[case_id |-> k, limit |-> 5, threshold |-> LowThreshold] : k \in {"A", "B"}}

\* records of a JSON batch handed to import_data
JCase(k, title) == JObject([case_id |-> JString(k), title |-> JString(title)])
SampleRecords ==
    << JCase("B", <<"a", "b">>),
       JObject([case_id |-> JString("C"), title |-> JString(<<"c">>),
                status |-> JString("resolved"), priority |-> JString("low"),
                tags |-> JArray(<<JObject([name |-> JString(<<"t">>), confidence |-> 1,
                                          source |-> JString("auto")]),
                                  JObject([name |-> JString(<<"t">>), confidence |-> 1,
                                          source |-> JString("manual")])>>)]),
       JObject([case_id |-> JString("A")]),
       JObject([case_id |-> JString("A"), title |-> JString(<<"a">>),
                status |-> JString("bogus")]),
       JString(<<"a">>) >>

\* the batches: the "cases" arrays import_data is called with
SampleBatches ==
    << <<SampleRecords[1], SampleRecords[2]>>,
       <<SampleRecords[3], SampleRecords[1]>>,
       <<SampleRecords[2], SampleRecords[5], SampleRecords[1]>>,
       <<SampleRecords[4]>> >>

----------------------------------------------------------------------------
(* The state machine: one SCPManager over a fresh data directory *)

\* SCPManager.__init__: the store and the index start empty (nothing on disk);
\* vector search is on when FAISS is installed and the caller asks for it
Init ==
    /\ memory_cases = <<>>
    /\ vector_search_enabled \in BOOLEAN
    /\ case_ids = <<>>
    /\ index = <<>>
    /\ engine_cases = <<>>
    /\ now = 0
    /\ ret = [op |-> "init"]
    /\ upserted = [k \in Ids |-> <<>>]
    /\ model_name = DefaultModel
    /\ index_file = NoFiles
    /\ updating = <<>>
    /\ searching = <<>>
    /\ adding = <<>>
    /\ syncing = <<>>

\* self.search_engine.add_case(case)
EngineAdd(c) ==
    IF vector_search_enabled
    THEN /\ case_ids' = vector_add_case(case_ids, index, c).case_ids
         /\ index' = vector_add_case(case_ids, index, c).index
         /\ UNCHANGED engine_cases
    ELSE /\ engine_cases' = simple_add_case(engine_cases, c)
         /\ UNCHANGED <<case_ids, index>>

\* self.search_engine.update_case(case)
EngineUpdate(c) ==
    IF vector_search_enabled
    THEN /\ case_ids' = vector_update_case(case_ids, index, c).case_ids
         /\ index' = vector_update_case(case_ids, index, c).index
         /\ UNCHANGED engine_cases
    ELSE /\ engine_cases' = simple_add_case(engine_cases, c)
         /\ UNCHANGED <<case_ids, index>>

\* self.search_engine.remove_case(case_id)
EngineRemove(k) ==
    IF vector_search_enabled
    THEN /\ case_ids' = vector_remove_case(case_ids, index, k).case_ids
         /\ index' = vector_remove_case(case_ids, index, k).index
         /\ UNCHANGED engine_cases
    ELSE /\ engine_cases' = simple_remove_case(engine_cases, k)
         /\ UNCHANGED <<case_ids, index>>

\* a faulty _sync_search_index whose rebuild does not reset the embedding index
SyncSearchIndex_no_reset(d) ==
    IF get_all_cases(d) = <<>> THEN UNCHANGED <<case_ids, index, engine_cases>>
    ELSE IF vector_search_enabled
    THEN /\ case_ids' = vector_rebuild_from(case_ids, index, get_all_cases(d)).case_ids
         /\ index' = vector_rebuild_from(case_ids, index, get_all_cases(d)).index
         /\ UNCHANGED engine_cases
    ELSE /\ engine_cases' = simple_rebuild_index(get_all_cases(d))
         /\ UNCHANGED <<case_ids, index>>

\* SCPManager._sync_search_index over the store d: rebuilds unless the store is empty
SyncSearchIndex(d) ==
    IF get_all_cases(d) = <<>> THEN UNCHANGED <<case_ids, index, engine_cases>>
    ELSE IF vector_search_enabled
    THEN /\ case_ids' = vector_rebuild_index(get_all_cases(d)).case_ids
         /\ index' = vector_rebuild_index(get_all_cases(d)).index
         /\ UNCHANGED engine_cases
    ELSE /\ engine_cases' = simple_rebuild_index(get_all_cases(d))
         /\ UNCHANGED <<case_ids, index>>

\* SCPManager.add_case(case) for a SupportCase built from kw just before the call
AddCase(kw) ==
    /\ now < MaxClock
    /\ LET c == [SupportCase(kw, now) EXCEPT !.updated_at = now] IN
        /\ memory_cases' = add_case(memory_cases, c, now)
        /\ EngineAdd(c)
        /\ upserted' = [upserted EXCEPT ![c.case_id] = <<c>>]
        /\ ret' = [op |-> "add_case", case_id |-> c.case_id]
    /\ now' = now + 1
    /\ UNCHANGED <<vector_search_enabled, offstage>>

\* SCPManager.get_case(case_id)
GetCase(k) ==
    /\ ret' = [op |-> "get_case", case_id |-> k, value |-> get_case(memory_cases, k)]
    /\ UNCHANGED <<offstage, memory_cases, vector_search_enabled, case_ids, index, engine_cases,
                   now, upserted>>

\* SCPManager.update_case(case_id, updates)
UpdateCase(k, update_dict) ==
    IF get_case(memory_cases, k) = <<>>
    THEN /\ ret' = [op |-> "update_case", case_id |-> k, found |-> FALSE]
         /\ UNCHANGED <<offstage, memory_cases, vector_search_enabled, case_ids, index,
                        engine_cases, now, upserted>>
    ELSE /\ now < MaxClock
         /\ LET c == [apply_updates(get_case(memory_cases, k)[1], update_dict)
                         EXCEPT !.updated_at = now] IN
             /\ memory_cases' = add_case(memory_cases, c, now)
             /\ EngineUpdate(c)
             /\ upserted' = [upserted EXCEPT ![k] = <<c>>]
         /\ ret' = [op |-> "update_case", case_id |-> k, found |-> TRUE,
                    updates |-> update_dict,
                    value |-> <<[apply_updates(get_case(memory_cases, k)[1], update_dict)
                                    EXCEPT !.updated_at = now]>>]
         /\ now' = now + 1
         /\ UNCHANGED <<vector_search_enabled, offstage>>

\* SCPManager.delete_case(case_id)
DeleteCase(k) ==
    LET r == delete_case(memory_cases, k) IN
    /\ r.deleted => now < MaxClock
    /\ memory_cases' = r.cases
    /\ IF r.deleted THEN EngineRemove(k) ELSE UNCHANGED <<case_ids, index, engine_cases>>
    /\ upserted' = IF r.deleted THEN [upserted EXCEPT ![k] = <<>>] ELSE upserted
    /\ ret' = [op |-> "delete_case", case_id |-> k, deleted |-> r.deleted]
    /\ now' = IF r.deleted THEN now + 1 ELSE now
    /\ UNCHANGED <<vector_search_enabled, offstage>>

RECURSIVE Record(_, _)
\* the history after MemoryStore.add_case of each case of added, in order
Record(h, added) ==
    IF added = <<>> THEN h
    ELSE Record([h EXCEPT ![Head(added).case_id] = <<Head(added)>>], Tail(added))

\* a faulty add_case_logs that reports success for a case that is not stored
AddCaseLogs_no_check(k, lines) ==
    /\ ret' = [op |-> "add_case_logs", case_id |-> k, added |-> TRUE]
    /\ UNCHANGED <<offstage, memory_cases, vector_search_enabled, case_ids, index,
                   engine_cases, now, upserted>>

\* SCPManager.add_case_logs(case_id, log_content) with log_format "text"
AddCaseLogs(k, lines) ==
    IF get_case(memory_cases, k) = <<>>
    THEN /\ ret' = [op |-> "add_case_logs", case_id |-> k, added |-> FALSE]
         /\ UNCHANGED <<offstage, memory_cases, vector_search_enabled, case_ids, index,
                        engine_cases, now, upserted>>
    ELSE /\ now < MaxClock
         /\ LET old == get_case(memory_cases, k)[1]
                c == [old EXCEPT !.logs = old.logs \o parse_log_content(lines),
                                 !.updated_at = now] IN
             /\ memory_cases' = add_case(memory_cases, c, now)
             /\ EngineUpdate(c)
             /\ upserted' = [upserted EXCEPT ![k] = <<c>>]
         /\ ret' = [op |-> "add_case_logs", case_id |-> k, added |-> TRUE]
         /\ now' = now + 1
         /\ UNCHANGED <<vector_search_enabled, offstage>>

RECURSIVE bulk_loop(_, _, _, _, _)
\* the loop of SCPManager.bulk_update_tags over the items of tag_mappings: the
\* store d, the engine (ids, ix, e) and the number of cases updated so far
bulk_loop(st, items, t, vector, updated_count) ==
    IF items = <<>> THEN [st |-> st, count |-> updated_count]
    ELSE LET k == Head(items).case_id IN
         IF get_case(st.cases, k) = <<>>
         THEN bulk_loop(st, Tail(items), t, vector, updated_count)
         ELSE LET c == [add_tags(get_case(st.cases, k)[1], Head(items).tags, "bulk_update")
                           EXCEPT !.updated_at = t]
                  v == vector_update_case(st.case_ids, st.index, c)
              IN bulk_loop([cases        |-> add_case(st.cases, c, t),
                            case_ids     |-> IF vector THEN v.case_ids ELSE st.case_ids,
                            index        |-> IF vector THEN v.index ELSE st.index,
                            engine_cases |-> IF vector THEN st.engine_cases
                                             ELSE simple_add_case(st.engine_cases, c),
                            added        |-> Append(st.added, c)],
                           Tail(items), t, vector, updated_count + 1)

\* SCPManager.bulk_update_tags(tag_mappings)
BulkUpdateTags(m) ==
    /\ now < MaxClock
    /\ LET r == bulk_loop([cases |-> memory_cases, case_ids |-> case_ids, index |-> index,
                           engine_cases |-> engine_cases, added |-> <<>>],
                          SampleTagMappings[m], now, vector_search_enabled, 0) IN
        /\ memory_cases' = r.st.cases
        /\ case_ids' = r.st.case_ids
        /\ index' = r.st.index
        /\ engine_cases' = r.st.engine_cases
        /\ upserted' = Record(upserted, r.st.added)
        /\ ret' = [op |-> "bulk_update_tags", mapping |-> m, count |-> r.count]
        /\ now' = IF r.count > 0 THEN now + 1 ELSE now
    /\ UNCHANGED <<vector_search_enabled, offstage>>

\* SCPManager.import_data(json_data): when import_from_json raises, the index is
\* not synchronised
ImportData(b) ==
    /\ now < MaxClock
    /\ LET r == import_from_json(memory_cases, [cases |-> SampleBatches[b]], now) IN
        /\ memory_cases' = r.cases
        /\ upserted' = Record(upserted, r.added)
        /\ IF r.raised THEN UNCHANGED <<case_ids, index, engine_cases>>
           ELSE SyncSearchIndex(r.cases)
        /\ ret' = [op |-> "import_data", batch |-> b, raised |-> r.raised,
                   count |-> r.count]
    /\ now' = now + 1
    /\ UNCHANGED <<vector_search_enabled, offstage>>

\* SCPManager.export_data()
ExportData ==
    /\ ret' = [op |-> "export_data", json |-> export_to_json(memory_cases)]
    /\ UNCHANGED <<offstage, memory_cases, vector_search_enabled, case_ids, index, engine_cases,
                   now, upserted>>

\* what SCPManager.search_cases can return for the validated query q
search_outcomes(d, vector, ids, ix, q) ==
    LET cases == candidates(d, q) IN
    IF vector /\ q.query # <<>>
    THEN {rank_results(cases, q, vector, vr) :
             vr \in vector_search(ids, ix, q.query, search_k(cases), Zero)}
    ELSE {rank_results(cases, q, vector, <<>>)}

\* SCPManager.search_cases(CaseQuery(**kw)); a query that does not validate is
\* rejected before the manager is called
SearchCases(n) ==
    /\ LET q == CaseQuery(SampleQueries[n]) IN
        IF q.error # ""
        THEN ret' = [op |-> "search_cases", query |-> n, rejected |-> TRUE]
        ELSE \E o \in search_outcomes(memory_cases, vector_search_enabled,
                                      case_ids, index, q) :
                ret' = [op |-> "search_cases", query |-> n, rejected |-> FALSE,
                        raised |-> o.raised, results |-> o.results]
    /\ UNCHANGED <<offstage, memory_cases, vector_search_enabled, case_ids, index, engine_cases,
                   now, upserted>>

\* what SCPManager.find_similar_cases(case_id, limit, threshold) can return
similar_outcomes(d, vector, ids, ix, e, k, limit, threshold) ==
    IF get_case(d, k) = <<>> THEN {[raised |-> FALSE, results |-> <<>>]}
    ELSE LET c == get_case(d, k)[1] IN
         IF vector
         THEN {similar_to_results(d, sr, k) :
                  sr \in vector_find_similar_cases(ids, ix, c, limit, threshold)}
         ELSE {similar_to_results(d, simple_find_similar_cases(e, c, limit, threshold), k)}

\* SCPManager.find_similar_cases(case_id, limit, threshold)
FindSimilarCases(a) ==
    /\ \E o \in similar_outcomes(memory_cases, vector_search_enabled, case_ids, index,
                                 engine_cases, a.case_id, a.limit, a.threshold) :
          ret' = [op |-> "find_similar_cases", case_id |-> a.case_id, limit |-> a.limit,
                  raised |-> o.raised, results |-> o.results]
    /\ UNCHANGED <<offstage, memory_cases, vector_search_enabled, case_ids, index, engine_cases,
                   now, upserted>>

Next ==
    \/ \E n \in 1..Len(SampleCases) : AddCase(SampleCases[n])
    \/ \E k \in Ids : GetCase(k)
    \/ \E k \in Ids, n \in 1..Len(SampleUpdates) : UpdateCase(k, SampleUpdates[n])
    \/ \E k \in Ids : DeleteCase(k)
    \/ \E b \in 1..Len(SampleBatches) : ImportData(b)
    \/ ExportData
    \/ \E n \in 1..Len(SampleQueries) : SearchCases(n)
    \/ \E a \in SampleSimilar : FindSimilarCases(a)
    \/ \E k \in Ids : AddCaseLogs(k, SampleLog)
    \/ \E m \in 1..Len(SampleTagMappings) : BulkUpdateTags(m)

Spec == Init /\ [][Next]_vars

----------------------------------------------------------------------------
(* A VectorSearchEngine on its own over a data directory that is kept between
   engines: add_case, rebuild_index, save_index, search, and opening a new engine
   over the directory under either model *)

\* the table holds at most this many rows
MaxRows == 2

\* the lists rebuild_index is called with
SampleRebuilds == << <<>>, <<1>>, <<3, 2>> >>

\* what the engine steps leave alone
EngineFrame == <<memory_cases, vector_search_enabled, engine_cases, now, upserted,
                 updating, searching, adding, syncing>>

RECURSIVE engine_add_all(_, _, _, _)
\* add_case of each case of cs to the engine opened with model
engine_add_all(ids, ix, model, cs) ==
    IF cs = <<>> THEN [case_ids |-> ids, index |-> ix]
    ELSE engine_add_all(Append(ids, Head(cs).case_id),
                        Append(ix, encode_with(model, get_text_content(Head(cs)))),
                        model, Tail(cs))

LoadInit ==
    /\ memory_cases = <<>>
    /\ vector_search_enabled = TRUE
    /\ case_ids = <<>>
    /\ index = <<>>
    /\ engine_cases = <<>>
    /\ now = 0
    /\ ret = [op |-> "init"]
    /\ upserted = [k \in Ids |-> <<>>]
    /\ model_name = DefaultModel
    /\ index_file = NoFiles
    /\ updating = <<>>
    /\ searching = <<>>
    /\ adding = <<>>
    /\ syncing = <<>>

\* VectorSearchEngine.add_case(case)
EngineAddCase(n) ==
    /\ Len(case_ids) < MaxRows
    /\ Len(index) < MaxRows
    /\ LET r == engine_add_all(case_ids, index, model_name, <<SupportCase(SampleCases[n], 0)>>) IN
        /\ case_ids' = r.case_ids
        /\ index' = r.index
    /\ ret' = [op |-> "engine_add_case", case_id |-> SampleCases[n].case_id]
    /\ UNCHANGED <<EngineFrame, model_name, index_file>>

\* VectorSearchEngine.rebuild_index(all_cases)
EngineRebuildIndex(n) ==
    /\ LET cs == [i \in 1..Len(SampleRebuilds[n]) |->
                      SupportCase(SampleCases[SampleRebuilds[n][i]], 0)]
           r == engine_add_all(<<>>, <<>>, model_name, cs) IN
        /\ case_ids' = r.case_ids
        /\ index' = r.index
    /\ ret' = [op |-> "rebuild_index", list |-> n]
    /\ UNCHANGED <<EngineFrame, model_name, index_file>>

\* VectorSearchEngine.save_index()
EngineSaveIndex ==
    /\ index_file' = save_index(case_ids, index, model_name)
    /\ ret' = [op |-> "save_index"]
    /\ UNCHANGED <<EngineFrame, model_name, case_ids, index>>

\* VectorSearchEngine(model_name=m, data_dir=...): a new engine over the directory,
\* whose __init__ ends with _load_index
EngineOpen(m) ==
    /\ model_name' = m
    /\ case_ids' = load_index(index_file, m).case_ids
    /\ index' = load_index(index_file, m).index
    /\ ret' = [op |-> "load_index", raised |-> FALSE,
               mismatch |-> index_file.metadata # <<>>
                            /\ index_file.metadata[1].model_name # m]
    /\ UNCHANGED <<EngineFrame, index_file>>

\* save_index() cut short by the end of the process after faiss.write_index and
\* before the metadata is written, then a new engine opened over the directory
EngineSaveCutShort(m) ==
    LET files == [index_file EXCEPT !.faiss = <<index>>] IN
    /\ index_file' = files
    /\ model_name' = m
    /\ case_ids' = load_index(files, m).case_ids
    /\ index' = load_index(files, m).index
    /\ ret' = [op |-> "load_index", raised |-> FALSE,
               mismatch |-> files.metadata # <<>> /\ files.metadata[1].model_name # m]
    /\ UNCHANGED EngineFrame

\* SCPManager(data_dir=..., vector_model=m) over the directory, which holds no file
\* of the store: MemoryStore._load_data finds nothing, the engine is opened as
\* above, and _sync_search_index rebuilds unless the store is empty
ManagerOpen(m) ==
    LET d == <<>>
        loaded == load_index(index_file, m)
        synced == IF get_all_cases(d) = <<>> THEN loaded
                  ELSE vector_rebuild_index(get_all_cases(d)) IN
    /\ memory_cases' = d
    /\ model_name' = m
    /\ case_ids' = synced.case_ids
    /\ index' = synced.index
    /\ ret' = [op |-> "manager_init"]
    /\ UNCHANGED <<vector_search_enabled, engine_cases, now, upserted, updating,
                   searching, adding, syncing, index_file>>

\* VectorSearchEngine.search(query, k=10, threshold=0.0); with rows and no id the
\* table is asked for min(k, 0) = 0 hits, which FAISS answers with no hit or
\* refuses, depending on its version
EngineSearch(query) ==
    /\ \/ \E r \in search_rows(case_ids, index, encode_with(model_name, query), 10, Zero) :
             ret' = [op |-> "search", query |-> query, raised |-> FALSE, results |-> r]
       \/ /\ Len(index) > 0 /\ Len(case_ids) = 0
          /\ ret' = [op |-> "search", query |-> query, raised |-> TRUE, results |-> <<>>]
    /\ UNCHANGED <<EngineFrame, model_name, index_file, case_ids, index>>

LoadNext ==
    \/ \E n \in 1..Len(SampleCases) : EngineAddCase(n)
    \/ \E n \in 1..Len(SampleRebuilds) : EngineRebuildIndex(n)
    \/ EngineSaveIndex
    \/ \E m \in Models : EngineOpen(m)
    \/ \E m \in Models : EngineSaveCutShort(m)
    \/ \E m \in Models : ManagerOpen(m)
    \/ \E query \in {<<"a", "b">>, <<"c">>} : EngineSearch(query)

LoadSpec == LoadInit /\ [][LoadNext]_vars

----------------------------------------------------------------------------
(* Two threads on one manager with the lexical backend: one inside
   SCPManager.update_case, one inside MemoryStore.search_cases. MemoryStore._lock
   is held by get_case and add_case for the length of the call and by search_cases
   from its first filter to its return; the loop of update_case writes the fields
   of the stored object without it. *)

\* the order in which CaseUpdate(...).dict(exclude_unset=True) lists its fields
UpdateFieldOrder == <<"title", "status", "priority", "description", "solution", "symptoms">>

\* update_case(case_id, CaseUpdate(...)) is called with these
ConcUpdates ==
    << [status |-> "RESOLVED", priority |-> "LOW"],
       [title |-> <<"c">>, status |-> "RESOLVED"] >>

\* MemoryStore.search_cases(query, status_filter, priority_filter, case_ids) is
\* called with these
StoreQuery(query, st, pr, ids) ==
    [query |-> query, status_filter |-> st, priority_filter |-> pr, case_ids |-> ids]
ConcQueries ==
    << StoreQuery(<<>>, Some(<<"RESOLVED">>), Some(<<"HIGH">>), Absent),
       StoreQuery(<<>>, Some(<<"OPEN">>), Some(<<"LOW">>), Some(<<"A", "B">>)),
       StoreQuery(<<"a", "b">>, Some(<<"RESOLVED">>), Absent, Absent) >>

\* the filters of MemoryStore.search_cases, in the order they run
Passes == <<"case_ids", "status", "priority", "text">>

\* one filter of MemoryStore.search_cases over the list ks of stored objects (given
\* by their ids), reading the objects as they are in d now
search_pass(pass, ks, d, q) ==
    CASE pass = "case_ids" ->
             IF TruthyList(q.case_ids)
             THEN Filter(ks, LAMBDA k : k \in Range(q.case_ids.v)) ELSE ks
      [] pass = "status" ->
             IF TruthyList(q.status_filter)
             THEN Filter(ks, LAMBDA k : get_case(d, k)[1].status \in Range(q.status_filter.v))
             ELSE ks
      [] pass = "priority" ->
             IF TruthyList(q.priority_filter)
             THEN Filter(ks, LAMBDA k :
                      get_case(d, k)[1].priority \in Range(q.priority_filter.v))
             ELSE ks
      [] pass = "text" ->
             IF q.query # <<>>
             THEN Filter(ks, LAMBDA k :
                      Contains(Lower(get_text_content(get_case(d, k)[1])), Lower(q.query)))
             ELSE ks

\* the entry of id k of the dict d is the object whose fields are now those of c
SetLive(d, k, c) == [i \in 1..Len(d) |-> IF d[i].case_id = k THEN c ELSE d[i]]

\* the store after add_case of the first three sample cases; the engine holds the
\* same objects
ConcCases == [n \in 1..3 |-> SupportCase(SampleCases[n], 0)]

ConcInit ==
    /\ memory_cases = ConcCases
    /\ vector_search_enabled = FALSE
    /\ case_ids = <<>>
    /\ index = <<>>
    /\ engine_cases = ConcCases
    /\ now = 0
    /\ ret = [op |-> "init"]
    /\ upserted = [k \in Ids |-> <<get_case(ConcCases, k)[1]>>]
    /\ model_name = DefaultModel
    /\ index_file = NoFiles
    /\ updating = <<>>
    /\ searching = <<>>
    /\ adding = <<>>
    /\ syncing = <<>>

\* update_case up to the loop: self.memory.get_case(case_id) under the lock, then
\* updates.dict(exclude_unset=True)
UpdateBegin(k, update_dict) ==
    /\ updating = <<>>
    /\ searching = <<>>
    /\ adding = <<>>
    /\ syncing = <<>>
    /\ IF get_case(memory_cases, k) = <<>>
       THEN /\ ret' = [op |-> "update_case", case_id |-> k, found |-> FALSE]
            /\ UNCHANGED updating
       ELSE /\ now < MaxClock
            /\ updating' = <<[case_id |-> k, updates |-> update_dict,
                              before  |-> get_case(memory_cases, k)[1],
                              todo    |-> Filter(UpdateFieldOrder,
                                                 LAMBDA f : f \in DOMAIN update_dict),
                              stamped |-> FALSE]>>
            /\ UNCHANGED ret
    /\ UNCHANGED <<memory_cases, vector_search_enabled, case_ids, index, engine_cases,
                   now, upserted, model_name, index_file, adding, syncing, searching>>

\* one turn of the loop of update_case: setattr(case, field, value), or extend for
\* a list field, on the stored object
UpdateSetattr ==
    /\ updating # <<>>
    /\ updating[1].todo # <<>>
    /\ LET u == updating[1]
           f == Head(u.todo)
           c == apply_updates(get_case(memory_cases, u.case_id)[1],
                              [g \in {f} |-> u.updates[g]]) IN
        /\ memory_cases' = SetLive(memory_cases, u.case_id, c)
        /\ engine_cases' = SetLive(engine_cases, u.case_id, c)
        /\ updating' = <<[u EXCEPT !.todo = Tail(u.todo)]>>
    /\ UNCHANGED <<vector_search_enabled, case_ids, index, now, ret, upserted,
                   model_name, index_file, adding, syncing, searching>>

\* case.updated_at = datetime.utcnow() after the loop
UpdateStamp ==
    /\ updating # <<>>
    /\ updating[1].todo = <<>>
    /\ ~updating[1].stamped
    /\ LET u == updating[1]
           c == [get_case(memory_cases, u.case_id)[1] EXCEPT !.updated_at = now] IN
        /\ memory_cases' = SetLive(memory_cases, u.case_id, c)
        /\ engine_cases' = SetLive(engine_cases, u.case_id, c)
        /\ updating' = <<[u EXCEPT !.stamped = TRUE]>>
    /\ UNCHANGED <<vector_search_enabled, case_ids, index, now, ret, upserted,
                   model_name, index_file, adding, syncing, searching>>

\* the end of update_case: self.memory.add_case(case) under the lock,
\* self.search_engine.update_case(case), return case
UpdateStore ==
    /\ updating # <<>>
    /\ updating[1].stamped
    /\ searching = <<>>
    /\ adding = <<>>
    /\ syncing = <<>>
    /\ LET u == updating[1]
           c == [get_case(memory_cases, u.case_id)[1] EXCEPT !.updated_at = now] IN
        /\ memory_cases' = add_case(memory_cases, c, now)
        /\ engine_cases' = simple_add_case(engine_cases, c)
        /\ upserted' = [upserted EXCEPT ![u.case_id] = <<c>>]
        /\ ret' = [op |-> "update_case", case_id |-> u.case_id, found |-> TRUE,
                   updates |-> u.updates, value |-> <<c>>]
    /\ updating' = <<>>
    /\ now' = now + 1
    /\ UNCHANGED <<vector_search_enabled, case_ids, index, model_name, index_file, adding, syncing,
                   searching>>

\* MemoryStore.search_cases takes the lock: cases = list(self._cases.values())
StoreSearchBegin(n) ==
    /\ searching = <<>>
    /\ adding = <<>>
    /\ syncing = <<>>
    /\ searching' = <<[query |-> n, pass |-> 1,
                       cases |-> [i \in 1..Len(memory_cases) |-> memory_cases[i].case_id]]>>
    /\ UNCHANGED <<memory_cases, vector_search_enabled, case_ids, index, engine_cases,
                   now, ret, upserted, model_name, index_file, adding, syncing, updating>>

\* the next filter of MemoryStore.search_cases; after the last, return cases: the
\* caller gets the stored objects as they are then
StoreSearchPass ==
    /\ searching # <<>>
    /\ LET s == searching[1]
           left == search_pass(Passes[s.pass], s.cases, memory_cases, ConcQueries[s.query]) IN
        IF s.pass < Len(Passes)
        THEN /\ searching' = <<[s EXCEPT !.pass = s.pass + 1, !.cases = left]>>
             /\ UNCHANGED ret
        ELSE /\ searching' = <<>>
             /\ ret' = [op |-> "store_search_cases", query |-> s.query,
                        results |-> [i \in 1..Len(left) |-> get_case(memory_cases, left[i])[1]]]
    /\ UNCHANGED <<memory_cases, vector_search_enabled, case_ids, index, engine_cases,
                   now, upserted, model_name, index_file, adding, syncing, updating>>

ConcNext ==
    \/ \E k \in Ids, n \in 1..Len(ConcUpdates) : UpdateBegin(k, ConcUpdates[n])
    \/ UpdateSetattr
    \/ UpdateStamp
    \/ UpdateStore
    \/ \E n \in 1..Len(ConcQueries) : StoreSearchBegin(n)
    \/ StoreSearchPass

ConcSpec == ConcInit /\ [][ConcNext]_vars

----------------------------------------------------------------------------
(* Two threads on one manager with the embedding backend: one inside
   SCPManager.add_case, one inside SCPManager.import_data. MemoryStore.add_case,
   get_all_cases and the upserts of import_from_json run under MemoryStore._lock;
   nothing of VectorSearchEngine is under a lock. *)

\* the thread is inside its call
InFlight(thread) == thread # <<>> /\ thread[1].pc # "done"

RaceInit ==
    /\ memory_cases = <<>>
    /\ vector_search_enabled = TRUE
    /\ case_ids = <<>>
    /\ index = <<>>
    /\ engine_cases = <<>>
    /\ now = 0
    /\ ret = [op |-> "init"]
    /\ upserted = [k \in Ids |-> <<>>]
    /\ model_name = DefaultModel
    /\ index_file = NoFiles
    /\ updating = <<>>
    /\ searching = <<>>
    /\ adding = <<>>
    /\ syncing = <<>>

\* what the steps of the two threads leave alone
RaceFrame == <<vector_search_enabled, engine_cases, model_name, index_file,
               updating, searching>>

\* SCPManager.add_case up to self.memory.add_case(case); overlap records whether
\* an import_data call is in flight at any moment of this call
AddStore(kw) ==
    /\ ~InFlight(adding)
    /\ now < MaxClock
    /\ LET c == [SupportCase(kw, now) EXCEPT !.updated_at = now] IN
        /\ memory_cases' = add_case(memory_cases, c, now)
        /\ upserted' = [upserted EXCEPT ![c.case_id] = <<c>>]
        /\ adding' = <<[case |-> c, pc |-> "row", overlap |-> InFlight(syncing)]>>
    /\ now' = now + 1
    /\ UNCHANGED <<RaceFrame, case_ids, index, ret, syncing>>

\* VectorSearchEngine.add_case for the thread of add_case: self.index.add(embedding)
AddRow ==
    /\ InFlight(adding) /\ adding[1].pc = "row"
    /\ index' = Append(index, encode_text(get_text_content(adding[1].case)))
    /\ adding' = <<[adding[1] EXCEPT !.pc = "id"]>>
    /\ UNCHANGED <<RaceFrame, memory_cases, case_ids, now, ret, upserted, syncing>>

\* a faulty end of add_case that does not append the id
AddId_no_append ==
    /\ InFlight(adding) /\ adding[1].pc = "id"
    /\ adding' = <<[adding[1] EXCEPT !.pc = "done"]>>
    /\ ret' = [op |-> "add_case", case_id |-> adding[1].case.case_id]
    /\ UNCHANGED <<RaceFrame, memory_cases, case_ids, index, now, upserted, syncing>>

\* self.case_ids.append(case.case_id), and add_case returns
AddId ==
    /\ InFlight(adding) /\ adding[1].pc = "id"
    /\ case_ids' = Append(case_ids, adding[1].case.case_id)
    /\ adding' = <<[adding[1] EXCEPT !.pc = "done"]>>
    /\ ret' = [op |-> "add_case", case_id |-> adding[1].case.case_id]
    /\ UNCHANGED <<RaceFrame, memory_cases, index, now, upserted, syncing>>

\* import_data up to the return of self.memory.import_from_json(json_data)
SyncImport(b) ==
    /\ ~InFlight(syncing)
    /\ now < MaxClock
    /\ LET r == import_from_json(memory_cases, [cases |-> SampleBatches[b]], now) IN
        /\ memory_cases' = r.cases
        /\ upserted' = Record(upserted, r.added)
        /\ IF r.raised
           THEN /\ syncing' = <<[pc |-> "done", batch |-> b, count |-> r.count, todo |-> <<>>]>>
                /\ ret' = [op |-> "import_data", batch |-> b, raised |-> TRUE,
                           count |-> r.count]
           ELSE /\ syncing' = <<[pc |-> "snapshot", batch |-> b, count |-> r.count,
                                 todo |-> <<>>]>>
                /\ UNCHANGED ret
        /\ adding' = IF InFlight(adding) /\ ~r.raised
                     THEN <<[adding[1] EXCEPT !.overlap = TRUE]>> ELSE adding
    /\ now' = now + 1
    /\ UNCHANGED <<RaceFrame, case_ids, index>>

\* _sync_search_index: all_cases = self.memory.get_all_cases(); an empty list ends
\* the call
SyncSnapshot ==
    /\ InFlight(syncing) /\ syncing[1].pc = "snapshot"
    /\ IF get_all_cases(memory_cases) = <<>>
       THEN /\ syncing' = <<[syncing[1] EXCEPT !.pc = "done"]>>
            /\ ret' = [op |-> "import_data", batch |-> syncing[1].batch, raised |-> FALSE,
                       count |-> syncing[1].count]
       ELSE /\ syncing' = <<[syncing[1] EXCEPT !.pc = "new_index",
                                               !.todo = get_all_cases(memory_cases)]>>
            /\ UNCHANGED ret
    /\ UNCHANGED <<RaceFrame, memory_cases, case_ids, index, now, upserted, adding>>

\* rebuild_index: self.index = faiss.IndexFlatIP(self.embedding_dim)
SyncNewIndex ==
    /\ InFlight(syncing) /\ syncing[1].pc = "new_index"
    /\ index' = <<>>
    /\ syncing' = <<[syncing[1] EXCEPT !.pc = "new_ids"]>>
    /\ UNCHANGED <<RaceFrame, memory_cases, case_ids, now, ret, upserted, adding>>

\* rebuild_index: self.case_ids = []
SyncNewIds ==
    /\ InFlight(syncing) /\ syncing[1].pc = "new_ids"
    /\ case_ids' = <<>>
    /\ syncing' = <<[syncing[1] EXCEPT !.pc = "row"]>>
    /\ UNCHANGED <<RaceFrame, memory_cases, index, now, ret, upserted, adding>>

\* the loop of rebuild_index, add_case of the next case: self.index.add(embedding)
SyncAddRow ==
    /\ InFlight(syncing) /\ syncing[1].pc = "row"
    /\ index' = Append(index, encode_text(get_text_content(Head(syncing[1].todo))))
    /\ syncing' = <<[syncing[1] EXCEPT !.pc = "id"]>>
    /\ UNCHANGED <<RaceFrame, memory_cases, case_ids, now, ret, upserted, adding>>

\* self.case_ids.append(case.case_id); after the last case import_data returns
SyncAddId ==
    /\ InFlight(syncing) /\ syncing[1].pc = "id"
    /\ case_ids' = Append(case_ids, Head(syncing[1].todo).case_id)
    /\ IF Tail(syncing[1].todo) = <<>>
       THEN /\ syncing' = <<[syncing[1] EXCEPT !.pc = "done", !.todo = <<>>]>>
            /\ ret' = [op |-> "import_data", batch |-> syncing[1].batch, raised |-> FALSE,
                       count |-> syncing[1].count]
       ELSE /\ syncing' = <<[syncing[1] EXCEPT !.pc = "row",
                                               !.todo = Tail(syncing[1].todo)]>>
            /\ UNCHANGED ret
    /\ UNCHANGED <<RaceFrame, memory_cases, index, now, upserted, adding>>

RaceNext ==
    \/ \E n \in 1..Len(SampleCases) : AddStore(SampleCases[n])
    \/ AddRow
    \/ AddId
    \/ \E b \in 1..Len(SampleBatches) : SyncImport(b)
    \/ SyncSnapshot
    \/ SyncNewIndex
    \/ SyncNewIds
    \/ SyncAddRow
    \/ SyncAddId

RaceSpec == RaceInit /\ [][RaceNext]_vars

----------------------------------------------------------------------------
(* Claims *)

\* what a case is, apart from updated_at
Content(c) == [c EXCEPT !.updated_at = 0]

\* the positions of the store that hold a record of id k
Slots(d, k) == {i \in 1..Len(d) : d[i].case_id = k}

\* C1: after any sequence of upserts and deletes the store holds exactly one record
\* for each id upserted and not deleted since, that record is the one upserted last
\* under the id, no record for any other id, and get_case_count is the number of
\* such ids (so an overwrite adds nothing and n new ids add n).
C1_UpsertKeepsOneRecord ==
    /\ \A k \in Ids :
          IF upserted[k] = <<>> THEN Slots(memory_cases, k) = {}
          ELSE /\ Cardinality(Slots(memory_cases, k)) = 1
               /\ get_case(memory_cases, k) = upserted[k]
    /\ DictKeys(memory_cases) \subseteq Ids
    /\ get_case_count(memory_cases) = Cardinality({k \in Ids : upserted[k] # <<>>})

\* C1 witness: add_case has overwritten B, which keeps its place before C although
\* it is the newer record
C1_Witness ==
    /\ ret.op = "add_case" /\ ret.case_id = "B"
    /\ Len(memory_cases) = 2
    /\ memory_cases[1].case_id = "B" /\ memory_cases[2].case_id = "C"
    /\ memory_cases[1].created_at > memory_cases[2].created_at

\* the ids of the cases in a list of SearchResult
ResultIds(results) == {results[i].case.case_id : i \in 1..Len(results)}

\* queries that validate, over the texts and the filters of the samples
Texts == {<<>>, <<" ">>, <<"a">>, <<"A", "b">>, <<"b">>, <<"c", " ", "a", "b">>}
ProbeQueries ==
    {CaseQuery(QueryKw(t, l, Absent, Absent, Absent, Absent)) : t \in Texts, l \in {1, 2, DefaultLimit}}
    \cup {CaseQuery(QueryKw(t, MaxLimit, ids, st, Absent, tg)) :
            t \in {<<>>, <<"b">>},
            ids \in {Absent, Some(<<>>), Some(<<"A", "B">>)},
            st \in {Absent, Some(<<"OPEN">>)},
            tg \in {Absent, Some(<<>>), Some(<<<<"t">>>>)}}

\* C2 (state part): a case that is not in the store (deleted and not added again,
\* or never added) is not returned by get_case and is in no result of search_cases,
\* whatever the index still lists
C2_GoneFromReads ==
    \A k \in Ids :
        upserted[k] = <<>> =>
            /\ get_case(memory_cases, k) = <<>>
            /\ \A q \in ProbeQueries :
                   \A o \in search_outcomes(memory_cases, vector_search_enabled,
                                            case_ids, index, q) :
                       k \notin ResultIds(o.results)

\* C2 (step part): delete_case returns True exactly when the id was in the store,
\* and then the id is gone
C2_DeleteStep ==
    \A k \in Ids :
        DeleteCase(k) =>
            /\ ret'.deleted = (k \in DictKeys(memory_cases))
            /\ ret'.deleted => (upserted'[k] = <<>> /\ get_case(memory_cases', k) = <<>>)

\* C2: once delete_case(id) has returned True, which it does exactly when the id
\* was stored, get_case(id) is None and no search_cases result holds the case,
\* until the id is added again, in both backend modes
C2_DeleteThenAbsent == [](C2_GoneFromReads) /\ [][C2_DeleteStep]_vars

\* C2 witness: vector mode, B was deleted and not added again, the index still
\* lists B, and a search has since returned other cases
C2_Witness ==
    /\ vector_search_enabled
    /\ ret.op = "search_cases" /\ ~ret.rejected /\ ~ret.raised /\ Len(ret.results) > 0
    /\ upserted["B"] = <<>>
    /\ "B" \in Range(case_ids)

\* C3: exporting a store, clearing it and importing the export gives back the same
\* set of cases apart from updated_at, and import_from_json returns their number
C3_SnapshotRoundTrip ==
    LET r == import_from_json(<<>>, export_to_json(memory_cases), now) IN
    /\ ~r.raised
    /\ r.count = get_case_count(memory_cases)
    /\ {Content(r.cases[i]) : i \in 1..Len(r.cases)}
           = {Content(memory_cases[i]) : i \in 1..Len(memory_cases)}

\* a record of a batch that SupportCase(**record) accepts
ValidRecord(rec) == rec.j = "object" /\ FieldsValid(rec.o)

\* C4: import over a batch that mixes valid and malformed records never fails:
\* no exception escapes, the count returned is the number of valid records, and
\* every valid record is in the store
C4_ImportSkipsMalformed ==
    ret.op = "import_data" =>
        LET batch == SampleBatches[ret.batch]
            valid == {i \in 1..Len(batch) : ValidRecord(batch[i])}
        IN /\ ~ret.raised
           /\ ret.count = Cardinality(valid)
           /\ \A i \in valid : batch[i].o.case_id.s \in DictKeys(memory_cases)

RECURSIVE SeqOf(_)
\* a list of the elements of the set S
SeqOf(S) == IF S = {} THEN <<>>
            ELSE LET x == CHOOSE x \in S : TRUE IN <<x>> \o SeqOf(S \ {x})

\* the non-empty lists a filter is probed with
NonEmptyLists(S) == {SeqOf(X) : X \in (SUBSET S) \ {{}}}

\* C5: for every non-empty status set X and priority set Y the structured filter
\* (MemoryStore.search_cases with an empty query) returns exactly the stored cases
\* with status in X and priority in Y, each once; with no predicate it returns
\* get_all_cases()
C5_FilterConjunction ==
    /\ \A X \in NonEmptyLists({"OPEN", "RESOLVED", "CLOSED"}),
          Y \in NonEmptyLists({"HIGH", "MEDIUM", "LOW"}) :
          LET r == search_cases(memory_cases, <<>>, Some(X), Some(Y), Absent) IN
          /\ Range(r) = {c \in Range(memory_cases) :
                            c.status \in Range(X) /\ c.priority \in Range(Y)}
          /\ Len(r) = Cardinality(Range(r))
    /\ search_cases(memory_cases, <<>>, Absent, Absent, Absent) = get_all_cases(memory_cases)

\* C5 witness: a search by status and priority has returned some of the stored
\* cases and left others out
C5_Witness ==
    /\ ret.op = "search_cases" /\ ret.query = 3 /\ ~ret.rejected
    /\ Len(ret.results) >= 1
    /\ Len(ret.results) < Len(memory_cases)

\* C6: every case a search returns satisfies each predicate the query supplies: its
\* id is in the allowlist, its status and priority are in the sets, it carries one
\* of the tags; also for an empty allowlist or set, for which nothing may be returned
C6_SuppliedPredicatesHold ==
    (ret.op = "search_cases" /\ ~ret.rejected /\ ~ret.raised) =>
        LET q == SampleQueries[ret.query] IN
        \A i \in 1..Len(ret.results) :
            LET c == ret.results[i].case IN
            /\ q.case_ids.has => c.case_id \in Range(q.case_ids.v)
            /\ q.status_filter.has => c.status \in Range(q.status_filter.v)
            /\ q.priority_filter.has => c.priority \in Range(q.priority_filter.v)
            /\ q.tags.has => \E n \in 1..Len(c.tags) : c.tags[n].name \in Range(q.tags.v)

\* the calls that only read
ReadOps == {"get_case", "export_data", "search_cases", "find_similar_cases"}

\* a reading call changes nothing but what it returns, so every store and index
\* the program reaches is first seen in a state entered by Init or a writing call
ReadsChangeNothing ==
    [][ret'.op \in ReadOps =>
          UNCHANGED <<memory_cases, vector_search_enabled, case_ids, index,
                      engine_cases, now, upserted>>]_vars

\* the state was entered by Init or a writing call
AfterWrite == ret.op \notin ReadOps

\* the vector results SCPManager.search_cases can be handed for query q
VectorResultsFor(q) ==
    IF vector_search_enabled /\ q.query # <<>>
    THEN vector_search(case_ids, index, q.query,
                       search_k(candidates(memory_cases, q)), Zero)
    ELSE {<<>>}

\* C7: search_cases returns at most limit results, a limit outside 1..100 is
\* rejected (the default is 10), and what is returned is the prefix of that length
\* of the ranked candidate list
C7_LimitRespected ==
    /\ DefaultLimit = 10
    /\ \A l \in {-1, 0, 1, 2, 10, 100, 101} :
          (CaseQuery(QueryKw(<<"a">>, l, Absent, Absent, Absent, Absent)).error # "")
              <=> (l < 1 \/ l > 100)
    /\ AfterWrite => \A q \in ProbeQueries :
          \A vr \in VectorResultsFor(q) :
              LET cases == candidates(memory_cases, q)
                  o == rank_results(cases, q, vector_search_enabled, vr)
                  ranked == rank_results(cases, [q EXCEPT !.limit = MaxLimit],
                                         vector_search_enabled, vr).results
              IN ~o.raised =>
                    /\ Len(o.results) <= q.limit
                    /\ Len(o.results) = q.limit \/ Len(o.results) = Len(ranked)
                    /\ o.results = SubSeq(ranked, 1, Len(o.results))
    /\ ret.op = "search_cases" =>
          /\ ret.rejected <=> (SampleQueries[ret.query].limit \notin 1..100)
          /\ (~ret.rejected /\ ~ret.raised) =>
                 Len(ret.results) <= SampleQueries[ret.query].limit

\* C7 witness: a search with limit 1 over more than one candidate has returned one
C7_Witness ==
    /\ ret.op = "search_cases" /\ ret.query = 2 /\ ~ret.rejected /\ ~ret.raised
    /\ Len(ret.results) = 1
    /\ Len(candidates(memory_cases, CaseQuery(SampleQueries[2]))) >= 2

\* the number of places of the list s that satisfy Keep
Count(s, Keep(_)) == Cardinality({i \in 1..Len(s) : Keep(s[i])})

\* r is the k best of the scored entries that meet the threshold thr, best first
TopK(r, entries, k, thr) ==
    LET meeting == Count(entries, LAMBDA e : ScoreLeq(thr, e.score)) IN
    /\ Len(r) <= k
    /\ \A i \in 1..Len(r) : ScoreLeq(thr, r[i].score)
    /\ \A i \in 1..(Len(r) - 1) : ScoreLeq(r[i + 1].score, r[i].score)
    /\ \A p \in Range(r) : Count(r, LAMBDA x : x = p) <= Count(entries, LAMBDA x : x = p)
    /\ \A i \in 1..Len(r) :
          Count(entries, LAMBDA e : ScoreLt(r[i].score, e.score))
              = Count(r, LAMBDA x : ScoreLt(r[i].score, x.score))
    /\ Len(r) = IF k < meeting THEN k ELSE meeting

\* the entries of the lexical index scored against the text
SimpleEntries(text) ==
    [i \in 1..Len(engine_cases) |->
        [case_id |-> engine_cases[i].case_id,
         score   |-> Jaccard(WordSet(Lower(text)),
                             WordSet(Lower(get_text_content(engine_cases[i]))))]]

\* the rows of the embedding index scored against the text
VectorEntries(text) ==
    [i \in 1..Len(index) |->
        [case_id |-> case_ids[i], score |-> InnerProduct(encode_text(text), index[i])]]

\* the thresholds and result counts the engines are probed with
Thresholds == {Zero, DefaultThreshold, LowThreshold, [num |-> 1, den |-> 2], One}
Counts == {1, 2, 3, DefaultK}

\* both engines, probed in this state with every text, k and threshold
TopKInState ==
    AfterWrite => \A text \in Texts, k \in Counts, thr \in Thresholds :
        /\ LET r == simple_search(engine_cases, text, k, thr) IN
           IF WordSet(Lower(text)) = {} THEN r = <<>>
           ELSE TopK(r, SimpleEntries(text), k, thr)
        /\ \A r \in vector_search(case_ids, index, text, k, thr) :
              TopK(r, VectorEntries(text), k, thr)

\* C8: search(query, k, threshold) of either engine returns at most k pairs, each
\* scoring at least threshold, best first, and they are the k highest-scoring index
\* entries that meet the threshold: every entry scoring strictly higher than a
\* returned one is returned too (k >= 1; the lexical engine scores nothing for a
\* query without a word)
C8_TopKAboveThreshold == [](TopKInState)

\* C8 witness: an index of several entries of which a search with k = 1 returns the
\* best and leaves out one that meets the threshold too
C8_Witness ==
    AfterWrite /\ \E text \in Texts :
        \/ /\ Len(engine_cases) >= 2
           /\ Len(simple_search(engine_cases, text, 1, Zero)) = 1
           /\ Count(SimpleEntries(text), LAMBDA e : ScoreLt(Zero, e.score)) >= 2
        \/ /\ Len(index) >= 2
           /\ \E r \in vector_search(case_ids, index, text, 1, Zero) : Len(r) = 1
           /\ Count(VectorEntries(text), LAMBDA e : ScoreLt(Zero, e.score)) >= 2

\* the result lists SCPManager.find_similar_cases can return in this state
SimilarProbes(k, limit, thr) ==
    similar_outcomes(memory_cases, vector_search_enabled, case_ids, index,
                     engine_cases, k, limit, thr)

\* the scores of a result list lie in [0, 1] and do not increase
UnitAndSorted(results) ==
    /\ \A i \in 1..Len(results) : ScoreValid(results[i].similarity_score)
    /\ \A i \in 1..(Len(results) - 1) :
          ScoreLeq(results[i + 1].similarity_score, results[i].similarity_score)

\* the scores of the lexical engine and of the results of the manager, probed in
\* this state and as last returned
ScoresInState ==
    /\ AfterWrite => \A text \in Texts, k \in Counts, thr \in Thresholds :
          LET r == simple_search(engine_cases, text, k, thr) IN
          /\ \A i \in 1..Len(r) : ScoreValid(r[i].score)
          /\ \A i \in 1..(Len(r) - 1) : ScoreLeq(r[i + 1].score, r[i].score)
    /\ AfterWrite => \A q \in ProbeQueries :
          \A o \in search_outcomes(memory_cases, vector_search_enabled, case_ids, index, q) :
              UnitAndSorted(o.results)
    /\ AfterWrite => \A k \in Ids, limit \in {1, 5}, thr \in Thresholds :
          \A o \in SimilarProbes(k, limit, thr) : UnitAndSorted(o.results)
    /\ ((ret.op = "search_cases" /\ ~ret.rejected) \/ ret.op = "find_similar_cases")
           => UnitAndSorted(ret.results)

\* C9: every score SimpleSearchEngine.search returns and every similarity_score of
\* a SearchResult from search_cases or find_similar_cases lies in [0.0, 1.0], and
\* the result lists are in non-increasing score order
C9_ScoresInUnitInterval == [](ScoresInState)

\* C9 witness: the embedding backend has ranked two results with different scores
C9_Witness ==
    /\ vector_search_enabled
    /\ ret.op = "search_cases" /\ ~ret.rejected /\ ~ret.raised
    /\ Len(ret.results) >= 2
    /\ ScoreLt(ret.results[2].similarity_score, ret.results[1].similarity_score)

\* C10: find_similar_cases(case_id) returns no result whose case has id case_id,
\* with either backend and whatever was added, updated and deleted before, also
\* when the index holds several entries of the id
C10_SelfExcluded ==
    /\ AfterWrite => \A k \in Ids, limit \in {1, 5}, thr \in Thresholds :
          \A o \in SimilarProbes(k, limit, thr) : k \notin ResultIds(o.results)
    /\ ret.op = "find_similar_cases" => ret.case_id \notin ResultIds(ret.results)

\* C10 witness: the index holds two entries of the id find_similar_cases was called
\* with, and the call has returned another case
C10_Witness ==
    /\ ret.op = "find_similar_cases" /\ ~ret.raised
    /\ Cardinality({i \in 1..Len(case_ids) : case_ids[i] = ret.case_id}) >= 2
    /\ Len(ret.results) >= 1

\* the ids of the pairs an engine returns
PairIds(pairs) == {pairs[i].case_id : i \in 1..Len(pairs)}

\* the cases an engine's find_similar_cases is probed with: the stored ones and the
\* sample cases, stored or not
QueryCases ==
    Range(memory_cases) \cup {SupportCase(SampleCases[n], 0) : n \in 1..Len(SampleCases)}

\* C11: find_similar_cases(case, k, threshold) of SimpleSearchEngine and of
\* VectorSearchEngine returns no pair whose id is case.case_id
C11_EngineSelfExcluded ==
    \A c \in QueryCases, k \in {1, 2}, thr \in Thresholds :
        /\ c.case_id \notin PairIds(simple_find_similar_cases(engine_cases, c, k, thr))
        /\ \A sr \in vector_find_similar_cases(case_ids, index, c, k, thr) :
              c.case_id \notin PairIds(sr)

\* find_similar_cases of the lexical engine returns at most k pairs
C12_SimpleAtMostK ==
    \A c \in QueryCases, k \in {1, 2}, thr \in Thresholds :
        Len(simple_find_similar_cases(engine_cases, c, k, thr)) <= k

\* find_similar_cases of the embedding engine returns at most k pairs
C12_VectorAtMostK ==
    \A c \in QueryCases, k \in {1, 2}, thr \in Thresholds :
        \A sr \in vector_find_similar_cases(case_ids, index, c, k, thr) : Len(sr) <= k

\* SCPManager.find_similar_cases returns at most limit results
C12_ManagerAtMostK ==
    \A id \in Ids, k \in {1, 2}, thr \in Thresholds :
        \A o \in SimilarProbes(id, k, thr) : Len(o.results) <= k

\* C12: find_similar with limit k returns at most k results, from either engine and
\* from SCPManager.find_similar_cases, whatever the index holds: also when the case
\* asked about is not among the k + 1 best hits or not in the index
C12_AtMostK == C12_SimpleAtMostK /\ C12_VectorAtMostK /\ C12_ManagerAtMostK

\* the ids of a list of cases, in order
CaseIdsOf(cs) == [i \in 1..Len(cs) |-> cs[i].case_id]

\* the index (ids, ix) holds exactly one entry per element of cs, in order, and
\* search returns only ids of cases of cs
ExactlyIndexed(ids, ix, cs) ==
    /\ ids = CaseIdsOf(cs)
    /\ ix = [i \in 1..Len(cs) |-> encode_text(get_text_content(cs[i]))]
    /\ \A text \in Texts, k \in Counts :
          \A res \in vector_search(ids, ix, text, k, LowThreshold) :
              PairIds(res) \subseteq Range(CaseIdsOf(cs))

\* C13 (state part): rebuild_index(all_cases) over the stored cases gives exactly
\* one entry per case
C13_RebuildOfStore ==
    AfterWrite =>
        LET r == vector_rebuild_index(get_all_cases(memory_cases))
        IN ExactlyIndexed(r.case_ids, r.index, get_all_cases(memory_cases))

\* C13 (step part): a step in which the embedding index is rebuilt (import_data
\* over a store that is not empty) leaves exactly one entry per stored case,
\* whatever the index held before
C13_RebuildStep ==
    (vector_search_enabled /\ ret'.op = "import_data" /\ ~ret'.raised
        /\ memory_cases' # <<>>)
    => ExactlyIndexed(case_ids', index', get_all_cases(memory_cases'))

\* C13: immediately after VectorSearchEngine.rebuild_index(all_cases), whatever the
\* index held before, the index holds exactly one entry per element of all_cases
\* and search returns only ids of cases in all_cases
C13_RebuildExact == [](C13_RebuildOfStore) /\ [][C13_RebuildStep]_vars

\* C13 witness: the index held a row of A before the import, and the rebuild at
\* the end of the import has left one row for each of the three stored cases
C13_Witness ==
    /\ vector_search_enabled
    /\ ret.op = "import_data" /\ ~ret.raised
    /\ Len(memory_cases) = 3
    /\ case_ids = CaseIdsOf(memory_cases)

\* what the call recorded in r returned is what a call for a missing case returns
MissingAnswer(r) ==
    CASE r.op = "get_case"           -> r.value = <<>>
      [] r.op = "delete_case"        -> ~r.deleted
      [] r.op = "update_case"        -> ~r.found
      [] r.op = "find_similar_cases" -> ~r.raised /\ r.results = <<>>
      [] r.op = "add_case_logs"      -> ~r.added

\* a step that calls get_case, delete_case, update_case, find_similar_cases or
\* add_case_logs for an id that is not in the store answers None, False, None, []
\* or False and leaves the store and the index as they were
C14_MissingStep ==
    (/\ ret'.op \in {"get_case", "delete_case", "update_case", "find_similar_cases",
                     "add_case_logs"}
     /\ ret'.case_id \notin DictKeys(memory_cases))
    => /\ MissingAnswer(ret')
       /\ UNCHANGED <<memory_cases, case_ids, index, engine_cases>>

\* C14: get_case, delete_case, update_case, find_similar_cases and add_case_logs
\* for a case_id that is not in the store return None, False, None, an empty list
\* and False, raise nothing, and leave the store and the search index unchanged
C14_MissingCaseNoEffect == [][C14_MissingStep]_vars

\* C14 witness: add_case_logs has answered False for a case that is not stored
\* while another case is stored and indexed
C14_Witness ==
    /\ ret.op = "add_case_logs" /\ ~ret.added
    /\ ret.case_id \notin DictKeys(memory_cases)
    /\ memory_cases # <<>>
    /\ case_ids # <<>> \/ engine_cases # <<>>

\* the scalar fields an update can name
ScalarFields == {"title", "status", "priority", "description", "solution"}

\* what update_case did to the supplied fields of the case: old before, new after
SuppliedApplied(old, new, u) ==
    /\ \A f \in ScalarFields \cap DOMAIN u : new[f] = u[f]
    /\ \A f \in ListFields \cap DOMAIN u : u[f].has => new[f] = old[f] \o u[f].v

\* a step of update_case on a stored case sets the supplied fields, leaves the
\* fields in Kept as they were, and returns the case that get_case returns next
UpdateStep(Kept) ==
    (ret'.op = "update_case" /\ ret'.found) =>
        LET old == get_case(memory_cases, ret'.case_id)[1]
            new == get_case(memory_cases', ret'.case_id)[1]
        IN /\ SuppliedApplied(old, new, ret'.updates)
           /\ \A f \in Kept \ DOMAIN ret'.updates : new[f] = old[f]
           /\ ret'.value = <<new>>

\* the fields of a stored case
CaseFields == {"case_id", "title", "status", "priority", "created_at", "updated_at",
               "description", "symptoms", "solution", "logs", "tags"}

\* C15 as stated: update_case on an existing case overwrites each supplied scalar
\* field, appends supplied list values, leaves every field not named in the update
\* unchanged, and returns the updated case, which a following get_case returns
C15_UpdateLeavesRestUnchanged == [][UpdateStep(CaseFields)]_vars

\* C15 amended: as stated, except that updated_at, which no update names, is set
\* to the time of the update
C15_UpdateLeavesRestButStamp == [][UpdateStep(CaseFields \ {"updated_at"})]_vars

\* C15 witness: update_case has appended a symptom to the one case C had
C15_Witness ==
    /\ ret.op = "update_case" /\ ret.found /\ ret.case_id = "C"
    /\ get_case(memory_cases, "C") = ret.value
    /\ ret.value[1].symptoms = << <<"c">>, <<"b">> >>
    /\ ret.value[1].updated_at > ret.value[1].created_at

\* a letter without its case
Fold(ch) == CASE ch \in {"a", "A"} -> "a" [] ch \in {"b", "B"} -> "b"
              [] ch \in {"c", "C"} -> "c" [] OTHER -> ch

\* needle occurs in hay when case is ignored
OccursIgnoringCase(hay, needle) ==
    \E i \in 0..(Len(hay) - Len(needle)) :
        \A j \in 1..Len(needle) : Fold(hay[i + j]) = Fold(needle[j])

\* the case passes every structured filter the query supplies
PassesFilters(c, q) ==
    /\ q.case_ids.has => c.case_id \in Range(q.case_ids.v)
    /\ q.status_filter.has => c.status \in Range(q.status_filter.v)
    /\ q.priority_filter.has => c.priority \in Range(q.priority_filter.v)
    /\ q.tags.has => \E n \in 1..Len(c.tags) : c.tags[n].name \in Range(q.tags.v)
    /\ q.date_from.has => c.created_at >= q.date_from.v
    /\ q.date_to.has => c.created_at <= q.date_to.v

\* the stored cases a lexical search for q has to find
Matching(q) ==
    {c \in Range(memory_cases) :
        PassesFilters(c, q) /\ OccursIgnoringCase(get_text_content(c), q.query)}

\* queries with a text and with filters that are absent or name something
TextQueries ==
    {CaseQuery(QueryKw(t, l, ids, st, Absent, tg)) :
        t \in Texts \ {<<>>}, l \in {1, 2, DefaultLimit},
        ids \in {Absent, Some(<<"A", "B">>)},
        st \in {Absent, Some(<<"OPEN">>)},
        tg \in {Absent, Some(<<<<"t">>>>)}}

\* the cases of a result list
ResultCases(results) == {results[i].case : i \in 1..Len(results)}

C17_NoDuplicateTagNames ==
    \A n \in 1..Len(memory_cases) :
        \A i, j \in 1..Len(memory_cases[n].tags) :
            memory_cases[n].tags[i].name = memory_cases[n].tags[j].name => i = j

\* the operations of SCPManager that change the store
WriteOps == {"add_case", "update_case", "delete_case", "add_case_logs",
             "bulk_update_tags", "import_data"}

\* the last operation was one of those, or the construction, and it returned
Completed ==
    /\ ret.op \in WriteOps \cup {"init"}
    /\ ret.op = "import_data" => ~ret.raised

\* C18: with the lexical backend, after every completed SCPManager operation
\* (construction, add_case, update_case, delete_case, add_case_logs,
\* bulk_update_tags, import_data) the ids held by the search engine are the ids
\* held by the store
C18_LexicalIndexMatchesStore ==
    (~vector_search_enabled /\ Completed) =>
        Range(CaseIdsOf(engine_cases)) = Range(CaseIdsOf(memory_cases))

\* C19: when a VectorSearchEngine loads a persisted index whose recorded model
\* name differs from its own, loading does not raise and the index is treated as
\* absent: no vectors, no ids, and search returns nothing
C19_MismatchedIndexAbsent ==
    (ret.op = "load_index" /\ ret.mismatch) =>
        /\ ~ret.raised
        /\ case_ids = <<>>
        /\ index = <<>>
        /\ \A query \in Texts :
               search_rows(case_ids, index, encode_with(model_name, query), 10, Zero) = {<<>>}

\* the states of the stored case k that the store passes through during the
\* search: the case before the update_case in flight and the case after it, or
\* the case as stored when no update of k is in flight
SingleStates(k) ==
    IF updating # <<>> /\ updating[1].case_id = k
    THEN {updating[1].before, apply_updates(updating[1].before, updating[1].updates)}
    ELSE {get_case(memory_cases, k)[1]}

\* a search that returns: each case returned satisfies all the predicates of the
\* search together in one of the states the store passed through
C20_SearchReturn ==
    (searching # <<>> /\ searching' = <<>>) =>
        \A i \in 1..Len(ret'.results) :
            \E c \in SingleStates(ret'.results[i].case_id) :
                LET q == ConcQueries[ret'.query]
                IN search_cases(<<c>>, q.query, q.status_filter, q.priority_filter,
                                q.case_ids) # <<>>

\* C20: MemoryStore.search_cases running concurrently with update_case on a case
\* returns only cases that satisfied all its predicates together in one single
\* store state, never a mix of pre-update and post-update field values
C20_SearchSeesOneStoreState == [][C20_SearchReturn]_vars

\* C21: on the embedding index remove_case(id) and update_case(case) are logical
\* no-ops: they leave the stored vectors and the id list unchanged
C21_RemoveUpdateNoOps ==
    vector_search_enabled =>
        /\ \A k \in Ids :
              /\ vector_remove_case(case_ids, index, k).case_ids = case_ids
              /\ vector_remove_case(case_ids, index, k).index = index
        /\ \A c \in Range(memory_cases) :
              /\ vector_update_case(case_ids, index, c).case_ids = case_ids
              /\ vector_update_case(case_ids, index, c).index = index

\* max(number of filtered candidates, 100)
MaxOfCandidatesAndDefault(cases) == IF Len(cases) > DefaultK THEN Len(cases) ELSE DefaultK

\* C22: in embedding mode with free text, search_cases scores its candidates from
\* the index's best max(number of candidates, 100) hits: a candidate gets 0.0 only
\* when it is not among those, and the results are sorted by score descending
C22_ScoredFromBestHits ==
    (vector_search_enabled /\ AfterWrite) =>
        \A q \in TextQueries :
            LET cases == candidates(memory_cases, q) IN
            search_outcomes(memory_cases, TRUE, case_ids, index, q)
                \subseteq {rank_results(cases, q, TRUE, vr) :
                              vr \in vector_search(case_ids, index, q.query,
                                                   MaxOfCandidatesAndDefault(cases), Zero)}

\* C23: with the lexical backend and free text, each result of search_cases
\* carries the token-set Jaccard score of the query against the text of its case,
\* and the results are ordered by that score descending
C23_LexicalJaccardScores ==
    (~vector_search_enabled /\ ret.op = "search_cases" /\ ~ret.rejected
        /\ SampleQueries[ret.query].query # <<>>) =>
        /\ \A i \in 1..Len(ret.results) :
              LET jaccard == Jaccard(WordSet(Lower(SampleQueries[ret.query].query)),
                                     WordSet(Lower(get_text_content(ret.results[i].case))))
              IN /\ ScoreLeq(ret.results[i].similarity_score, jaccard)
                 /\ ScoreLeq(jaccard, ret.results[i].similarity_score)
        /\ \A i \in 1..(Len(ret.results) - 1) :
              ScoreLeq(ret.results[i + 1].similarity_score, ret.results[i].similarity_score)

\* C24: in embedding mode the candidate set of search_cases is determined by the
\* structured filters alone: a stored case that passes them is a candidate (and is
\* returned when the limit allows) whether or not its text contains the query
C24_EmbeddingIgnoresSubstring ==
    (vector_search_enabled /\ AfterWrite) =>
        \A q \in TextQueries :
            LET passing == {c \in Range(memory_cases) : PassesFilters(c, q)} IN
            \A o \in search_outcomes(memory_cases, TRUE, case_ids, index, q) :
                (~o.raised /\ Cardinality(passing) <= q.limit)
                    => ResultCases(o.results) = passing

\* what the engine can hand to the loop of find_similar_cases for the stored case c
EngineSimilar(c, limit, thr) ==
    IF vector_search_enabled
    THEN vector_find_similar_cases(case_ids, index, c, limit, thr)
    ELSE {simple_find_similar_cases(engine_cases, c, limit, thr)}

\* every result is the stored case of its id
AllStored(results) ==
    \A i \in 1..Len(results) :
        get_case(memory_cases, results[i].case.case_id) = <<results[i].case>>

\* C25: every SearchResult of SCPManager.find_similar_cases refers to a case that
\* is in the store; ids the index still lists for deleted cases are dropped and
\* never cause an error (an error comes only from the score of a case that is kept)
C25_StaleIdsDropped ==
    /\ AfterWrite =>
          \A k \in DictKeys(memory_cases), limit \in {1, 5}, thr \in Thresholds :
              \A sr \in EngineSimilar(get_case(memory_cases, k)[1], limit, thr) :
                  LET o == similar_to_results(memory_cases, sr, k) IN
                  /\ AllStored(o.results)
                  /\ o.raised =>
                         \E i \in 1..Len(sr) :
                             /\ sr[i].case_id # k
                             /\ get_case(memory_cases, sr[i].case_id) # <<>>
                             /\ ~ScoreValid(sr[i].score)
    /\ ret.op = "find_similar_cases" => AllStored(ret.results)

\* C25 witness: find_similar_cases has returned while the engine's hits for the
\* call list an id whose case was deleted from the store
C25_Witness ==
    /\ vector_search_enabled
    /\ ret.op = "find_similar_cases" /\ ~ret.raised
    /\ get_case(memory_cases, ret.case_id) # <<>>
    /\ \E a \in SampleSimilar :
          /\ a.case_id = ret.case_id /\ a.limit = ret.limit
          /\ \E sr \in EngineSimilar(get_case(memory_cases, ret.case_id)[1],
                                     a.limit, a.threshold) :
                \E i \in 1..Len(sr) :
                    /\ sr[i].case_id # ret.case_id
                    /\ get_case(memory_cases, sr[i].case_id) = <<>>

\* both calls have returned, the case of add_case is in the store, and the id list
\* of the embedding index has no entry of it
LostUpdate ==
    /\ adding # <<>> /\ adding[1].pc = "done"
    /\ syncing # <<>> /\ syncing[1].pc = "done"
    /\ get_case(memory_cases, adding[1].case.case_id) # <<>>
    /\ adding[1].case.case_id \notin Range(case_ids)

\* C26: index mutation is not serialized: an add_case of a case X in embedding
\* mode that interleaves with the index rebuild of import_data can end with both
\* calls completed, X in the store and no entry of X in the index; an add_case that
\* does not overlap an import_data call never ends so
C26_LostUpdateNeedsOverlap == LostUpdate => adding[1].overlap

\* C26 witness: both calls have completed, X is in the store, the rebuilt index
\* holds entries of the imported cases and none of X
C26_Witness ==
    /\ LostUpdate
    /\ case_ids # <<>>
    /\ Len(index) = Len(case_ids)
    /\ ~syncing[1].count = 0

\* C27: the id list of the embedding index is parallel to its vector table in
\* every state reached by add_case, rebuild_index, save_index and load: as many ids
\* as vectors, and the id at position i names the case whose vector is at row i
C27_IdsParallelToVectors ==
    /\ Len(case_ids) = Len(index)
    /\ \A i \in 1..Len(case_ids) :
          \E n \in 1..Len(SampleCases), m \in Models :
              /\ case_ids[i] = SampleCases[n].case_id
              /\ index[i] = encode_with(m, get_text_content(SupportCase(SampleCases[n], 0)))

\* the ids the search index of the backend in use holds
IndexedIds ==
    IF vector_search_enabled THEN Range(case_ids) ELSE Range(CaseIdsOf(engine_cases))

\* C28: after SCPManager construction and after every import_data call that
\* returns, every id held by the search index belongs to a case in the store, for
\* both backends and for every store state, the empty store included
C28_NoStaleIdAfterSync ==
    (ret.op \in {"init", "manager_init"} \/ (ret.op = "import_data" /\ ~ret.raised)) =>
        IndexedIds \subseteq DictKeys(memory_cases)

\* C29: in embedding mode with free text, the similarity_score of a result of
\* search_cases is the highest score the index returned for its case id, when the
\* index returned several entries of that id
C29_HighestScoreKept ==
    (vector_search_enabled /\ AfterWrite) =>
        \A q \in TextQueries :
            LET cases == candidates(memory_cases, q) IN
            \A vr \in vector_search(case_ids, index, q.query, search_k(cases), Zero) :
                LET out == rank_results(cases, q, TRUE, vr) IN
                ~out.raised =>
                    \A i \in 1..Len(out.results), j \in 1..Len(vr) :
                        vr[j].case_id = out.results[i].case.case_id =>
                            ScoreLeq(vr[j].score, out.results[i].similarity_score)

\* C30: no result list of search_cases or find_similar_cases holds the same
\* case_id more than once, with either backend, after any sequence of writes
C30_NoDuplicateResultIds ==
    ((ret.op = "search_cases" /\ ~ret.rejected) \/ ret.op = "find_similar_cases") =>
        Cardinality(ResultIds(ret.results)) = Len(ret.results)

====
